---- MODULE Spec2Model ----
(***************************************************************************)
(* Market-data ingestion pipeline: rolling buffers, the multi-timeframe    *)
(* OHLC / univariate aggregators and the causal-API dispatcher.            *)
(*                                                                         *)
(* JavaScript values are represented as follows.                           *)
(*   string (label, map key)  a sequence of one-character strings          *)
(*   ISO-8601 datetime string the record of its calendar fields            *)
(*   T | undefined | null     <<>> for undefined/null, <<v>> for a value   *)
(*   Map<string, V>           the sequence of its entries, insertion order *)
(***************************************************************************)
EXTENDS Integers, Sequences, FiniteSets, TLC

(***************************************************************************)
(* Bounds of the model.                                                    *)
(***************************************************************************)
\* operations performed on one aggregator in one behaviour
MaxOps == 4
\* capacity of every timeframe buffer of the network (5000 in production)
BufferSize == 2
\* largest capacity of the stand-alone rolling buffer
MaxCapacity == 2
\* largest count passed to getLast on the stand-alone rolling buffer
MaxGet == 3
\* largest rowCount an adapter is configured with
MaxRowCount == 3
\* completion listeners registered on one aggregator
MaxListeners == 2
\* sockets one streaming client creates in one behaviour
MaxSockets == 5
\* latest wall-clock time, in milliseconds
MaxClock == 101000
\* disconnects of the equities connector in one behaviour
MaxDisconnects == 2
\* HTTP requests one polling loop issues in one behaviour
MaxRequests == 5
\* correlation identifiers one subscription manager hands out before a clear
MaxSubscriptions == 2
\* market-data events one terminal connector handles in one behaviour
MaxMessages == 3

Max(a, b) == IF a >= b THEN a ELSE b
Min(a, b) == IF a <= b THEN a ELSE b

undefined == <<>>
null == <<>>
Some(v) == <<v>>

(***************************************************************************)
(* Date: epoch milliseconds <-> ISO-8601 string (UTC, proleptic Gregorian) *)
(***************************************************************************)
\* calendar date of a day number counted from 1970-01-01
CivilFromDays(days) ==
  LET z   == days + 719468
      era == z \div 146097
      doe == z - era * 146097
      yoe == (doe - doe \div 1460 + doe \div 36524 - doe \div 146096) \div 365
      doy == doe - (365 * yoe + yoe \div 4 - yoe \div 100)
      mp  == (5 * doy + 2) \div 153
      d   == doy - (153 * mp + 2) \div 5 + 1
      m   == IF mp < 10 THEN mp + 3 ELSE mp - 9
      y   == yoe + era * 400 + (IF m <= 2 THEN 1 ELSE 0)
  IN  [year |-> y, month |-> m, day |-> d]

\* day number counted from 1970-01-01 of a calendar date
DaysFromCivil(y0, m, d) ==
  LET y   == IF m <= 2 THEN y0 - 1 ELSE y0
      era == y \div 400
      yoe == y - era * 400
      doy == (153 * (IF m > 2 THEN m - 3 ELSE m + 9) + 2) \div 5 + d - 1
      doe == yoe * 365 + yoe \div 4 - yoe \div 100 + doy
  IN  era * 146097 + doe - 719468

\* new Date(ms).toISOString(): "YYYY-MM-DDThh:mm:ss.sssZ"
toISOString(ms) ==
  LET days == ms \div 86400000
      rem  == ms % 86400000
      c    == CivilFromDays(days)
  IN  [year   |-> c.year, month |-> c.month, day |-> c.day,
       hour   |-> rem \div 3600000,
       minute |-> (rem % 3600000) \div 60000,
       second |-> (rem % 60000) \div 1000,
       milli  |-> rem % 1000]

\* new Date(isoString).getTime()
getTime(iso) ==
  DaysFromCivil(iso.year, iso.month, iso.day) * 86400000
    + iso.hour * 3600000 + iso.minute * 60000 + iso.second * 1000 + iso.milli

(***************************************************************************)
(* Strings                                                                 *)
(***************************************************************************)
DigitChars == <<"0", "1", "2", "3", "4", "5", "6", "7", "8", "9">>

IsDigit(ch) == \E i \in 1..10 : DigitChars[i] = ch

DigitValue(ch) == (CHOOSE i \in 1..10 : DigitChars[i] = ch) - 1

\* parseInt of a string of digits
RECURSIVE parseInt(_)
parseInt(digits) ==
  IF digits = <<>> THEN 0
  ELSE parseInt(SubSeq(digits, 1, Len(digits) - 1)) * 10
         + DigitValue(digits[Len(digits)])

RECURSIVE NatToChars(_)
NatToChars(n) ==
  IF n < 10 THEN <<DigitChars[n + 1]>>
  ELSE NatToChars(n \div 10) \o <<DigitChars[(n % 10) + 1]>>

\* `${n}` for an integer n
NumberToString(n) == IF n < 0 THEN <<"-">> \o NatToChars(-n) ELSE NatToChars(n)

\* String.prototype.startsWith
startsWith(str, prefix) ==
  /\ Len(prefix) <= Len(str)
  /\ SubSeq(str, 1, Len(prefix)) = prefix

\* Array.prototype.slice(start) with one argument
slice(arr, start) ==
  LET len == Len(arr)
      k   == IF start < 0 THEN Max(len + start, 0) ELSE Min(start, len)
  IN  SubSeq(arr, k + 1, len)

(***************************************************************************)
(* Buffer (core/buffer.ts) and UnivariateBuffer (core/univariateBuffer.ts) *)
(***************************************************************************)
Buffer(maxSize, timeframeLabel) ==
  [maxSize |-> maxSize, candles |-> <<>>, timeframeLabel |-> timeframeLabel]

BufferPushNoEvict(b, candle) == [b EXCEPT !.candles = @ \o <<candle>>]

BufferPushEvictNewest(b, candle) ==
  LET pushed == b.candles \o <<candle>>
  IN  [b EXCEPT !.candles = IF Len(pushed) > b.maxSize
                            THEN SubSeq(pushed, 1, b.maxSize) ELSE pushed]

BufferPush(b, candle) ==
  LET pushed == b.candles \o <<candle>>
  IN  [b EXCEPT !.candles = IF Len(pushed) > b.maxSize THEN Tail(pushed) ELSE pushed]

BufferGetLast(b, count) == slice(b.candles, -count)

BufferSizeOf(b) == Len(b.candles)

BufferIsFull(b) == Len(b.candles) >= b.maxSize

BufferClear(b) == [b EXCEPT !.candles = <<>>]

BufferGetOldestTimestamp(b) ==
  IF Len(b.candles) = 0 THEN null ELSE Some(b.candles[1].datetime)

BufferGetNewestTimestamp(b) ==
  IF Len(b.candles) = 0 THEN null ELSE Some(b.candles[Len(b.candles)].datetime)

UnivariateBuffer(maxSize, timeframeLabel) ==
  [maxSize |-> maxSize, dataPoints |-> <<>>, timeframeLabel |-> timeframeLabel]

UnivariateBufferPush(b, dataPoint) ==
  LET pushed == b.dataPoints \o <<dataPoint>>
  IN  [b EXCEPT !.dataPoints = IF Len(pushed) > b.maxSize THEN Tail(pushed) ELSE pushed]

UnivariateBufferGetLast(b, count) == slice(b.dataPoints, -count)

UnivariateBufferSizeOf(b) == Len(b.dataPoints)

UnivariateBufferIsFull(b) == Len(b.dataPoints) >= b.maxSize

UnivariateBufferClear(b) == [b EXCEPT !.dataPoints = <<>>]

UnivariateBufferGetOldestTimestamp(b) ==
  IF Len(b.dataPoints) = 0 THEN null ELSE Some(b.dataPoints[1].datetime)

UnivariateBufferGetNewestTimestamp(b) ==
  IF Len(b.dataPoints) = 0 THEN null
  ELSE Some(b.dataPoints[Len(b.dataPoints)].datetime)

(***************************************************************************)
(* Configuration and inputs                                                *)
(***************************************************************************)
\* TimeframeConfig { seconds, label, bufferSize }
TimeframeConfig(seconds, label) ==
  [seconds |-> seconds, label |-> label, bufferSize |-> BufferSize]

\* the timeframe networks an aggregator is constructed with: two timeframes
\* labelled <count>s and a daily one, whose label has another unit than
\* s, m or h; no label is a prefix of another
Networks ==
  { << TimeframeConfig(1, <<"1", "s">>),
       TimeframeConfig(5, <<"5", "s">>),
       TimeframeConfig(86400, <<"1", "d">>) >> }

\* the symbol the aggregator is constructed for, and another one
Symbol == "BTCUSDT"
OtherSymbol == "ETHUSDT"

\* vendor trade times, in epoch milliseconds
TickTimes == {0, 1200, 6000}

\* price and optional size of a trade
Quotes ==
  { [price |-> 100, size |-> Some(1)],
    [price |-> 101, size |-> Some(2)],
    [price |-> 99,  size |-> undefined] }

\* NormalizedTick { ts, price, size?, symbol }
NormalizedTick(ms, q, symbol) ==
  [ts |-> toISOString(ms), price |-> q.price, size |-> q.size, symbol |-> symbol]

Ticks ==
  { NormalizedTick(ms, q, Symbol) : ms \in TickTimes, q \in Quotes }
    \cup { NormalizedTick(1200, [price |-> 100, size |-> Some(1)], OtherSymbol) }

\* buffers.set(tf.label, ...) for each tf in order: the last one set stays
LastWithLabel(tfs, l) ==
  tfs[CHOOSE i \in 1..Len(tfs) :
        /\ tfs[i].label = l
        /\ \A j \in (i + 1)..Len(tfs) : tfs[j].label # l]

(***************************************************************************)
(* Map<string, V> kept as the sequence of its entries in insertion order   *)
(***************************************************************************)
MapHas(m, key) == \E i \in 1..Len(m) : m[i].key = key

MapGet(m, key) == m[CHOOSE i \in 1..Len(m) : m[i].key = key].value

MapSet(m, key, value) ==
  IF MapHas(m, key)
  THEN [i \in 1..Len(m) |-> IF m[i].key = key THEN [key |-> key, value |-> value] ELSE m[i]]
  ELSE Append(m, [key |-> key, value |-> value])

MapDelete(m, key) == SelectSeq(m, LAMBDA e : e.key # key)

MapKeys(m) == [i \in 1..Len(m) |-> m[i].key]

(***************************************************************************)
(* CandleBuilder (core/candleBuilder.ts)                                   *)
(*                                                                         *)
(* st is the builder: [buffers, candlesInProgress, listeners, finalized,    *)
(* calls].  The field ticks of a candle in progress and the sequences      *)
(* finalized and calls are history variables: the ticks folded into the    *)
(* candle so far, every finalization with the label of the buffer it       *)
(* pushed into, and every listener invocation with its arguments and the   *)
(* newest record the timeframe's buffer held when the listener ran.        *)
(* A listener is the name of a callback: one that logs and returns, as the *)
(* ones the supervisor registers, or one that throws.  thrown tells that   *)
(* an exception is propagating out of the builder's method.                *)
(***************************************************************************)
\* tick.size || 0
SizeOrZero(size) == IF size = undefined THEN 0 ELSE size[1]

getWindowStartUnaligned(timestamp, seconds) == timestamp

getWindowStart(timestamp, seconds) ==
  LET ms == seconds * 1000
  IN  (timestamp \div ms) * ms

\* `${tf.label}_${windowStart}`
CandleKey(tf, windowStart) == tf.label \o <<"_">> \o NumberToString(windowStart)

\* a callback that throws
Throws(listener) == listener = "failing"

\* the listeners forEach calls: up to the first one that throws
Called(listeners) ==
  IF \E i \in 1..Len(listeners) : Throws(listeners[i])
  THEN SubSeq(listeners, 1,
              CHOOSE i \in 1..Len(listeners) :
                /\ Throws(listeners[i])
                /\ \A j \in 1..(i - 1) : ~Throws(listeners[j]))
  ELSE listeners

\* this.listeners.forEach(listener => listener(finalCandle, tf.label))
notifyListeners(st, finalCandle, label) ==
  LET held   == st.buffers[label].candles
      called == Called(st.listeners)
  IN  [st EXCEPT
         !.calls = @ \o
           [i \in 1..Len(called) |->
              [listener     |-> called[i],
               record       |-> finalCandle,
               label        |-> label,
               newest       |-> IF held = <<>> THEN null ELSE Some(held[Len(held)]),
               finalization |-> Len(st.finalized)]],
         !.thrown = \E i \in 1..Len(st.listeners) : Throws(st.listeners[i])]

\* the Candle built from a candle in progress
FinalCandle(candle) ==
  [datetime |-> toISOString(candle.startTime),
   open     |-> candle.open,
   high     |-> candle.high,
   low      |-> candle.low,
   close    |-> candle.close,
   volume   |-> candle.volume]

finalizeCandleNotifyFirst(st, candle, tf) ==
  LET finalCandle == FinalCandle(candle)
      logged   == [st EXCEPT
                     !.finalized = Append(@, [label  |-> tf.label,
                                              record |-> finalCandle,
                                              ticks  |-> candle.ticks])]
      notified == notifyListeners(logged, finalCandle, tf.label)
  IN  [notified EXCEPT !.buffers[tf.label] = BufferPush(@, finalCandle)]

\* buffer.push(finalCandle), then every listener in registration order
finalizeCandle(st, candle, tf) ==
  LET finalCandle == FinalCandle(candle)
      pushed == [st EXCEPT
                   !.buffers[tf.label] = BufferPush(@, finalCandle),
                   !.finalized = Append(@, [label  |-> tf.label,
                                            record |-> finalCandle,
                                            ticks  |-> candle.ticks])]
  IN  notifyListeners(pushed, finalCandle, tf.label)

RECURSIVE FinalizeKeysKeepKeys(_, _, _)
FinalizeKeysKeepKeys(st, keys, tf) ==
  IF keys = <<>> THEN st
  ELSE FinalizeKeysKeepKeys(
         finalizeCandle(st, MapGet(st.candlesInProgress, Head(keys)), tf),
         Tail(keys), tf)

\* for (const oldKey of keys) { finalizeCandle(get(oldKey), tf); delete(oldKey) }
RECURSIVE FinalizeKeys(_, _, _)
FinalizeKeys(st, keys, tf) ==
  IF keys = <<>> THEN st
  ELSE LET oldCandle == MapGet(st.candlesInProgress, Head(keys))
           pushed    == finalizeCandle(st, oldCandle, tf)
           deleted   == [pushed EXCEPT
                           !.candlesInProgress = MapDelete(@, Head(keys))]
       IN  IF pushed.thrown THEN pushed
           ELSE FinalizeKeys(deleted, Tail(keys), tf)

\* a candle opened without the size of its first tick
NewCandleNoVolume(tick, timestamp, windowStart) ==
  [open       |-> tick.price,
   high       |-> tick.price,
   low        |-> tick.price,
   close      |-> tick.price,
   volume     |-> 0,
   startTime  |-> windowStart,
   lastUpdate |-> timestamp,
   ticks      |-> <<tick>>]

\* the candle a first tick of a window opens
NewCandle(tick, timestamp, windowStart) ==
  [open       |-> tick.price,
   high       |-> tick.price,
   low        |-> tick.price,
   close      |-> tick.price,
   volume     |-> SizeOrZero(tick.size),
   startTime  |-> windowStart,
   lastUpdate |-> timestamp,
   ticks      |-> <<tick>>]

FoldTickKeepClose(candle, tick, timestamp) ==
  [candle EXCEPT
     !.high       = Max(@, tick.price),
     !.low        = Min(@, tick.price),
     !.volume     = @ + SizeOrZero(tick.size),
     !.lastUpdate = timestamp,
     !.ticks      = Append(@, tick)]

FoldTickHighIsPrice(candle, tick, timestamp) ==
  [candle EXCEPT
     !.high       = tick.price,
     !.low        = Min(@, tick.price),
     !.close      = tick.price,
     !.volume     = @ + SizeOrZero(tick.size),
     !.lastUpdate = timestamp,
     !.ticks      = Append(@, tick)]

\* a further tick of the window folded into its candle
FoldTick(candle, tick, timestamp) ==
  [candle EXCEPT
     !.high       = Max(@, tick.price),
     !.low        = Min(@, tick.price),
     !.close      = tick.price,
     !.volume     = @ + SizeOrZero(tick.size),
     !.lastUpdate = timestamp,
     !.ticks      = Append(@, tick)]

updateCandleNoRollover(st, tick, timestamp, tf) ==
  LET windowStart == getWindowStart(timestamp, tf.seconds)
      key         == CandleKey(tf, windowStart)
  IN  IF ~MapHas(st.candlesInProgress, key)
      THEN [st EXCEPT !.candlesInProgress =
                MapSet(@, key, NewCandle(tick, timestamp, windowStart))]
      ELSE [st EXCEPT !.candlesInProgress =
                MapSet(@, key, FoldTick(MapGet(@, key), tick, timestamp))]

updateCandleDropLate(st, tick, timestamp, tf) ==
  LET windowStart == getWindowStart(timestamp, tf.seconds)
      key         == CandleKey(tf, windowStart)
      existingKeys ==
        SelectSeq(MapKeys(st.candlesInProgress), LAMBDA k : startsWith(k, tf.label))
  IN  IF MapHas(st.candlesInProgress, key)
      THEN [st EXCEPT !.candlesInProgress =
                MapSet(@, key, FoldTick(MapGet(@, key), tick, timestamp))]
      ELSE IF \E i \in 1..Len(existingKeys) :
                MapGet(st.candlesInProgress, existingKeys[i]).startTime > windowStart
      THEN st
      ELSE [FinalizeKeys(st, existingKeys, tf) EXCEPT !.candlesInProgress =
              MapSet(@, key, NewCandle(tick, timestamp, windowStart))]

updateCandle(st, tick, timestamp, tf) ==
  LET windowStart == getWindowStart(timestamp, tf.seconds)
      key         == CandleKey(tf, windowStart)
  IN  IF ~MapHas(st.candlesInProgress, key)
      THEN LET existingKeys ==
                 SelectSeq(MapKeys(st.candlesInProgress),
                           LAMBDA k : startsWith(k, tf.label))
               rolled == FinalizeKeys(st, existingKeys, tf)
           IN  IF rolled.thrown THEN rolled
               ELSE [rolled EXCEPT !.candlesInProgress =
                       MapSet(@, key, NewCandle(tick, timestamp, windowStart))]
      ELSE [st EXCEPT !.candlesInProgress =
                MapSet(@, key, FoldTick(MapGet(@, key), tick, timestamp))]

\* for (const tf of this.timeframes) updateCandle(tick, timestamp, tf)
RECURSIVE UpdateCandles(_, _, _, _)
UpdateCandles(st, tick, timestamp, tfs) ==
  IF tfs = <<>> \/ st.thrown THEN st
  ELSE UpdateCandles(updateCandle(st, tick, timestamp, Head(tfs)),
                     tick, timestamp, Tail(tfs))

addTick(st, tick, tfs) ==
  IF tick.symbol # Symbol THEN st
  ELSE [UpdateCandles(st, tick, getTime(tick.ts), tfs) EXCEPT
          !.acceptedSize = @ + SizeOrZero(tick.size)]

RECURSIVE forceFinalizeAll(_, _)
forceFinalizeAll(st, tfs) ==
  IF tfs = <<>> \/ st.thrown THEN st
  ELSE LET tf   == Head(tfs)
           keys == SelectSeq(MapKeys(st.candlesInProgress),
                             LAMBDA k : startsWith(k, tf.label))
       IN  forceFinalizeAll(FinalizeKeys(st, keys, tf), Tail(tfs))

\* new CandleBuilder(symbol, timeframes)
CandleBuilder(tfs) ==
  [buffers |->
     [l \in {tfs[i].label : i \in 1..Len(tfs)} |->
        Buffer(LastWithLabel(tfs, l).bufferSize, l)],
   candlesInProgress |-> <<>>,
   listeners |-> <<>>,
   finalized |-> <<>>,
   calls |-> <<>>,
   acceptedSize |-> 0,
   thrown |-> FALSE]

\* the caller's catch: the exception of a listener ends there
Caught(st) == [st EXCEPT !.thrown = FALSE]

\* this.listeners.push(listener)
onCandleComplete(st, listener) == [st EXCEPT !.listeners = Append(@, listener)]

(***************************************************************************)
(* UnivariateBuilder (core/univariateBuilder.ts)                           *)
(*                                                                         *)
(* st is the builder: [buffers, dataPointsInProgress, listeners,           *)
(* finalized, calls].                                                      *)
(***************************************************************************)
UnivariateGetWindowStart(timestamp, seconds) ==
  LET ms == seconds * 1000
  IN  (timestamp \div ms) * ms

\* this.listeners.forEach(listener => listener(finalDataPoint, tf.label))
UnivariateNotifyListeners(st, finalDataPoint, label) ==
  LET held == st.buffers[label].dataPoints
  IN  [st EXCEPT !.calls = @ \o
         [i \in 1..Len(st.listeners) |->
            [listener     |-> st.listeners[i],
             record       |-> finalDataPoint,
             label        |-> label,
             newest       |-> IF held = <<>> THEN null ELSE Some(held[Len(held)]),
             finalization |-> Len(st.finalized)]]]

\* the UnivariateDataPoint built from a data point in progress
FinalDataPoint(dataPoint) ==
  [datetime |-> toISOString(dataPoint.startTime), value |-> dataPoint.value]

finalizeDataPoint(st, dataPoint, tf) ==
  LET finalDataPoint == FinalDataPoint(dataPoint)
      pushed == [st EXCEPT
                   !.buffers[tf.label] = UnivariateBufferPush(@, finalDataPoint),
                   !.finalized = Append(@, [label  |-> tf.label,
                                            record |-> finalDataPoint])]
  IN  UnivariateNotifyListeners(pushed, finalDataPoint, tf.label)

RECURSIVE FinalizeDataPointKeys(_, _, _)
FinalizeDataPointKeys(st, keys, tf) ==
  IF keys = <<>> THEN st
  ELSE LET oldDataPoint == MapGet(st.dataPointsInProgress, Head(keys))
           pushed       == finalizeDataPoint(st, oldDataPoint, tf)
           deleted      == [pushed EXCEPT
                              !.dataPointsInProgress = MapDelete(@, Head(keys))]
       IN  FinalizeDataPointKeys(deleted, Tail(keys), tf)

updateDataPoint(st, tick, timestamp, tf) ==
  LET windowStart == UnivariateGetWindowStart(timestamp, tf.seconds)
      key         == CandleKey(tf, windowStart)
  IN  IF ~MapHas(st.dataPointsInProgress, key)
      THEN LET existingKeys ==
                 SelectSeq(MapKeys(st.dataPointsInProgress),
                           LAMBDA k : startsWith(k, tf.label))
               rolled == FinalizeDataPointKeys(st, existingKeys, tf)
           IN  [rolled EXCEPT !.dataPointsInProgress =
                  MapSet(@, key, [value      |-> tick.price,
                                  startTime  |-> windowStart,
                                  lastUpdate |-> timestamp,
                                  count      |-> 1,
                                  sum        |-> tick.price])]
      ELSE [st EXCEPT !.dataPointsInProgress =
                MapSet(@, key, [MapGet(@, key) EXCEPT
                                  !.value      = tick.price,
                                  !.lastUpdate = timestamp,
                                  !.count      = @ + 1,
                                  !.sum        = @ + tick.price])]

RECURSIVE UpdateDataPoints(_, _, _, _)
UpdateDataPoints(st, tick, timestamp, tfs) ==
  IF tfs = <<>> THEN st
  ELSE UpdateDataPoints(updateDataPoint(st, tick, timestamp, Head(tfs)),
                        tick, timestamp, Tail(tfs))

UnivariateAddTick(st, tick, tfs) ==
  IF tick.symbol # Symbol THEN st
  ELSE UpdateDataPoints(st, tick, getTime(tick.ts), tfs)

RECURSIVE UnivariateForceFinalizeAll(_, _)
UnivariateForceFinalizeAll(st, tfs) ==
  IF tfs = <<>> THEN st
  ELSE LET tf   == Head(tfs)
           keys == SelectSeq(MapKeys(st.dataPointsInProgress),
                             LAMBDA k : startsWith(k, tf.label))
       IN  UnivariateForceFinalizeAll(FinalizeDataPointKeys(st, keys, tf), Tail(tfs))

\* new UnivariateBuilder(symbol, timeframes)
UnivariateBuilder(tfs) ==
  [buffers |->
     [l \in {tfs[i].label : i \in 1..Len(tfs)} |->
        UnivariateBuffer(LastWithLabel(tfs, l).bufferSize, l)],
   dataPointsInProgress |-> <<>>,
   listeners |-> <<>>,
   finalized |-> <<>>,
   calls |-> <<>>]

\* this.listeners.push(listener)
onDataPointComplete(st, listener) == [st EXCEPT !.listeners = Append(@, listener)]

(***************************************************************************)
(* BinanceWebSocketClient (connectors/binance/websocketClient.ts) and      *)
(* PolygonWebSocketClient (connectors/polygon/websocketClient.ts)          *)
(*                                                                         *)
(* st is the client with what it created: the fields of the class, the     *)
(* readyState of every WebSocket it constructed (sockets, ws being an      *)
(* index into it and 0 for null) and the timeouts it started that have     *)
(* neither fired nor been cleared (timers).  History variables: closes has *)
(* one entry per close event since the last open event, holding the delay  *)
(* of the reconnect that close scheduled; shutdowns counts the shutdown    *)
(* calls that returned; after holds what the client did after the first    *)
(* of them returned.                                                       *)
(***************************************************************************)
\* new BinanceWebSocketClient(config): the defaults and one configured client
BinanceConfigs ==
  { [reconnectDelay |-> 5000,  maxReconnectAttempts |-> 10],
    [reconnectDelay |-> 20000, maxReconnectAttempts |-> 2] }

WebSocketClient(kind, reconnectDelay, maxReconnectAttempts) ==
  [kind                 |-> kind,
   reconnectDelay       |-> reconnectDelay,
   maxReconnectAttempts |-> maxReconnectAttempts,
   pingInterval         |-> 30000,
   ws                   |-> 0,
   reconnectAttempts    |-> 0,
   reconnectTimer       |-> null,
   heartbeatTimer       |-> FALSE,
   isShuttingDown       |-> FALSE,
   sockets              |-> <<>>,
   timers               |-> {},
   timersStarted        |-> 0,
   closes               |-> <<>>,
   shutdowns            |-> 0,
   after                |-> {},
   authenticated        |-> 0]

BinanceWebSocketClient(config) ==
  WebSocketClient("binance", config.reconnectDelay, config.maxReconnectAttempts)

\* maxReconnectAttempts = 10 and reconnectDelay = 1000 are fields of the class
PolygonWebSocketClient ==
  WebSocketClient("polygon", 1000, 10)

\* what the client does is remembered once a shutdown call has returned
Does(st, what) ==
  IF st.shutdowns > 0 THEN [st EXCEPT !.after = @ \cup {what}] ELSE st

\* setTimeout(callback, delay)
setTimeout(st, kind, delay) ==
  [st EXCEPT !.timers = @ \cup {[id |-> st.timersStarted + 1, kind |-> kind,
                                 delay |-> delay, socket |-> st.ws]},
             !.timersStarted = @ + 1]

\* this.ws?.readyState === WebSocket.OPEN
wsIsOpen(st) == st.ws # 0 /\ st.sockets[st.ws] = "OPEN"

\* ws.close() on socket i: the closing handshake starts, 'close' comes later
wsClose(st, i) ==
  IF st.sockets[i] \in {"CONNECTING", "OPEN"}
  THEN [st EXCEPT !.sockets[i] = "CLOSING"]
  ELSE st

\* connect() of either client, past its isShuttingDown check
newWebSocket(st) ==
  LET created == [st EXCEPT !.sockets = Append(@, "CONNECTING"),
                            !.ws = Len(st.sockets) + 1]
  IN  setTimeout(Does(created, "connect"), "connectTimeout", 10000)

BinanceConnect(st) == IF st.isShuttingDown THEN st ELSE newWebSocket(st)

PolygonConnect(st) == IF st.isShuttingDown THEN st ELSE newWebSocket(st)

BinanceOnOpenKeepAttempts(st) == [st EXCEPT !.heartbeatTimer = TRUE]

\* ws.on('open') of the Binance client
BinanceOnOpen(st) ==
  [st EXCEPT !.reconnectAttempts = 0, !.heartbeatTimer = TRUE]

\* authenticate(): the auth frame, then subscribe() one second later
authenticate(st) ==
  IF ~wsIsOpen(st) THEN st
  ELSE setTimeout(Does(st, "send"), "subscribe", 1000)

\* subscribe() of the Polygon client
PolygonSubscribe(st) == IF ~wsIsOpen(st) THEN st ELSE Does(st, "send")

\* ws.on('open') of the Polygon client
PolygonOnOpen(st) ==
  [authenticate([st EXCEPT !.reconnectAttempts = 0]) EXCEPT !.heartbeatTimer = TRUE]

\* scheduleReconnect() without its test of the maximum
BinanceScheduleReconnectNoMax(st) ==
  IF st.reconnectTimer # null THEN st
  ELSE LET delay == Min(st.reconnectDelay * 2 ^ st.reconnectAttempts, 60000)
           timed == setTimeout(st, "reconnect", delay)
       IN  [timed EXCEPT !.reconnectAttempts = @ + 1,
                         !.reconnectTimer = Some(timed.timersStarted)]

\* scheduleReconnect() of the Binance client
BinanceScheduleReconnect(st) ==
  IF st.reconnectTimer # null THEN st
  ELSE IF st.reconnectAttempts >= st.maxReconnectAttempts THEN st
  ELSE LET delay == Min(st.reconnectDelay * 2 ^ st.reconnectAttempts, 60000)
           timed == setTimeout(st, "reconnect", delay)
       IN  [timed EXCEPT !.reconnectAttempts = @ + 1,
                         !.reconnectTimer = Some(timed.timersStarted)]

PolygonScheduleReconnect(st) ==
  IF st.reconnectAttempts >= st.maxReconnectAttempts THEN st
  ELSE LET delay == Min(st.reconnectDelay * 2 ^ st.reconnectAttempts, 60000)
       IN  [setTimeout(st, "reconnect", delay) EXCEPT !.reconnectAttempts = @ + 1]

\* ws.on('close') of the Binance client
BinanceOnClose(st) ==
  LET stopped == [st EXCEPT !.heartbeatTimer = FALSE]
  IN  IF ~st.isShuttingDown THEN BinanceScheduleReconnect(stopped) ELSE stopped

\* ws.on('close') of the Polygon client
PolygonOnClose(st) ==
  LET stopped == [st EXCEPT !.heartbeatTimer = FALSE]
  IN  IF ~st.isShuttingDown THEN PolygonScheduleReconnect(stopped) ELSE stopped

\* the reconnect timeout of the Binance client fires
BinanceReconnectFires(st) == BinanceConnect([st EXCEPT !.reconnectTimer = null])

\* what the ping interval of the Binance client does when it fires,
\* timeSinceLastMessage being Date.now() - this.lastMessageTime
BinancePing(st, timeSinceLastMessage) ==
  IF ~wsIsOpen(st) THEN "none"
  ELSE IF timeSinceLastMessage > st.pingInterval * 3 THEN "close"
  ELSE "ping"

\* the ping interval of the Binance client fires
BinancePingFires(st, timeSinceLastMessage) ==
  CASE BinancePing(st, timeSinceLastMessage) = "close" -> wsClose(st, st.ws)
    [] BinancePing(st, timeSinceLastMessage) = "ping" -> Does(st, "send")
    [] OTHER -> st

\* what the heartbeat interval of the Polygon client does when it fires
PolygonHeartbeat(st, timeSinceLastMessage) ==
  IF ~wsIsOpen(st) THEN "none"
  ELSE IF timeSinceLastMessage > st.pingInterval * 2 THEN "close"
  ELSE "nothing"

\* the heartbeat interval of the Polygon client fires
PolygonHeartbeatFires(st, timeSinceLastMessage) ==
  IF PolygonHeartbeat(st, timeSinceLastMessage) = "close"
  THEN wsClose(st, st.ws)
  ELSE st

\* handleStatusMessage(msg) of the Polygon client on socket i: it logs, and
\* calls the connected callback on auth_success
handleStatusMessage(st, i, status) ==
  IF status = "auth_success" THEN [st EXCEPT !.authenticated = i] ELSE st

BinanceShutdown(st) ==
  LET flagged == [st EXCEPT !.isShuttingDown = TRUE, !.heartbeatTimer = FALSE]
      cleared == IF flagged.reconnectTimer # null
                 THEN [flagged EXCEPT
                         !.timers = {t \in @ : t.id # flagged.reconnectTimer[1]},
                         !.reconnectTimer = null]
                 ELSE flagged
  IN  IF cleared.ws # 0
      THEN [wsClose(cleared, cleared.ws) EXCEPT !.ws = 0]
      ELSE cleared

PolygonShutdown(st) ==
  LET flagged == [st EXCEPT !.isShuttingDown = TRUE, !.heartbeatTimer = FALSE]
  IN  IF flagged.ws # 0
      THEN [wsClose(flagged, flagged.ws) EXCEPT !.ws = 0]
      ELSE flagged

(***************************************************************************)
(* PolygonConnector (connectors/polygon/polygonConnector.ts) with the      *)
(* PolygonNormalizer and the PolygonRESTBackfill it uses                   *)
(*                                                                         *)
(* st is the connector with its surroundings: the fields of the class,     *)
(* whether the live stream is up (streaming), the wall clock (now) and the *)
(* backfill requests awaiting their HTTP response (pending).  History      *)
(* variables: disconnects counts the disconnects, observed logs the last   *)
(* message time and the wall clock at each of them, requested logs every   *)
(* backfill request, fed logs every tick fed to the aggregator with where  *)
(* it came from.                                                           *)
(***************************************************************************)
\* a trade message of the vendor: { ev, sym, p, s, t }
\* sym "" and t 0 stand for a missing field too; p is optional
PolygonTrade(sym, p, size, t) ==
  [ev |-> "T", sym |-> sym, p |-> Some(p), s |-> size, t |-> t]

\* PolygonNormalizer.normalize(raw): a tick, or null
PolygonNormalize(raw) ==
  IF raw.ev # "T" THEN null
  ELSE IF raw.sym = "" \/ raw.p = undefined \/ raw.t = 0 THEN null
  ELSE Some([ts |-> toISOString(raw.t), price |-> raw.p[1], size |-> Some(raw.s),
             symbol |-> raw.sym])

\* ticks.sort((a, b) => new Date(a.ts).getTime() - new Date(b.ts).getTime())
RECURSIVE SortByTs(_)
SortByTs(ticks) ==
  IF ticks = <<>> THEN <<>>
  ELSE LET rest   == SortByTs(SubSeq(ticks, 1, Len(ticks) - 1))
           last   == ticks[Len(ticks)]
           before == SelectSeq(rest, LAMBDA t : getTime(t.ts) <= getTime(last.ts))
           later  == SelectSeq(rest, LAMBDA t : getTime(t.ts) > getTime(last.ts))
       IN  before \o <<last>> \o later

\* backfillTrades: what it resolves to for the trades the vendor returned
backfillTrades(trades) ==
  LET normalized == [i \in 1..Len(trades) |-> PolygonNormalize(trades[i])]
      kept       == SelectSeq(normalized, LAMBDA t : t # null)
  IN  SortByTs([i \in 1..Len(kept) |-> kept[i][1]])

\* detectGap(lastKnownTimestamp, currentTimestamp, maxGapSeconds)
detectGap(lastKnownTimestamp, currentTimestamp, maxGapSeconds) ==
  IF lastKnownTimestamp = null THEN null
  ELSE LET lastKnown == getTime(lastKnownTimestamp[1])
       IN  IF currentTimestamp - lastKnown > maxGapSeconds * 1000
           THEN Some([hasGap |-> TRUE, from |-> lastKnown, to |-> currentTimestamp])
           ELSE null

PolygonConnector(enableBackfill) ==
  [enableBackfill  |-> enableBackfill,
   lastMessageTime |-> null,
   isConnected     |-> FALSE,
   streaming       |-> TRUE,
   now             |-> 1000,
   pending         |-> {},
   disconnects     |-> 0,
   observed        |-> <<>>,
   requested       |-> <<>>,
   fed             |-> <<>>]

\* feedToCandleBuilder(tick), the aggregator's part aside; source is 0 for
\* the live stream and the id of the request for a backfill
feedToCandleBuilder(st, tick, source) ==
  [st EXCEPT !.lastMessageTime = Some(tick.ts),
             !.fed = Append(@, [source |-> source, ts |-> tick.ts,
                                disconnects |-> st.disconnects])]

\* for (const tick of ticks) this.feedToCandleBuilder(tick)
RECURSIVE FeedAll(_, _, _)
FeedAll(st, ticks, source) ==
  IF ticks = <<>> THEN st
  ELSE FeedAll(feedToCandleBuilder(st, Head(ticks), source), Tail(ticks), source)

\* candleBuilder.addTick(tick) for each tick in order
RECURSIVE AddTicks(_, _, _)
AddTicks(builder, ticks, tfs) ==
  IF ticks = <<>> THEN builder
  ELSE AddTicks(addTick(builder, Head(ticks), tfs), Tail(ticks), tfs)

\* onDisconnected(), up to the HTTP request of performBackfill
onDisconnected(st) ==
  LET down    == [st EXCEPT !.isConnected = FALSE, !.disconnects = @ + 1]
      gapInfo == detectGap(st.lastMessageTime, st.now, 60)
  IN  IF st.enableBackfill /\ st.lastMessageTime # null /\ gapInfo # null
      THEN LET request == [id   |-> down.disconnects,
                           from |-> gapInfo[1].from,
                           to   |-> gapInfo[1].to]
           IN  [down EXCEPT !.pending = @ \cup {request},
                            !.requested = Append(@, request)]
      ELSE down

(***************************************************************************)
(* PollingLoop (connectors/accuweather/pollingLoop.ts) driving the poll    *)
(* function of the AccuWeatherConnector                                    *)
(*                                                                         *)
(* st is the loop with what it started: the fields of the class, the       *)
(* executions of pollWithRetry that have not ended (running, each with its *)
(* attempt number and whether it awaits the poll function or sleeps) and   *)
(* the next-tick timeouts that have neither fired nor been cleared         *)
(* (timeouts).  History variables: polls counts the calls of poll() that   *)
(* started an execution, requests logs every call of the poll function     *)
(* with the delay that preceded it and the response it got, stops counts   *)
(* the stop() calls and after what the loop did after the first of them.   *)
(***************************************************************************)
\* new PollingLoop(pollFunction, { intervalMs }): maxRetries 3, retryDelayMs 5000
PollingLoop(intervalMs) ==
  [intervalMs   |-> intervalMs,
   maxRetries   |-> 3,
   retryDelayMs |-> 5000,
   isRunning    |-> FALSE,
   timer        |-> null,
   running      |-> <<>>,
   timeouts     |-> 0,
   polls        |-> 0,
   requests     |-> <<>>,
   stops        |-> 0,
   after        |-> {}]

\* an HTTP response to the current-conditions request; status 0 stands for
\* a network error, body for the parsed JSON being a non-empty array
Response(status, retryAfter, body) ==
  [status |-> status, retryAfter |-> retryAfter, body |-> body]

\* fetchCurrentConditions(): whether it returns data or throws
fetchCurrentConditions(response) ==
  IF response.status = 0 THEN "throws"
  ELSE IF response.status = 429 THEN "throws"
  ELSE IF response.status < 200 \/ response.status > 299 THEN "throws"
  ELSE IF response.body # "array" THEN "throws"
  ELSE "data"

\* await this.pollFunction(): the request goes out
callPollFunction(st, attempt, wait) ==
  LET called == [st EXCEPT
                   !.running = Append(@, [attempt |-> attempt, phase |-> "polling",
                                          request |-> Len(st.requests) + 1]),
                   !.requests = Append(@, [poll     |-> st.polls,
                                           attempt  |-> attempt,
                                           wait     |-> wait,
                                           response |-> null])]
  IN  IF st.stops > 0 THEN [called EXCEPT !.after = @ \cup {"poll"}] ELSE called

\* poll(): a tick of the loop begins, wait being the delay it was scheduled with
poll(st, wait) ==
  IF ~st.isRunning THEN st
  ELSE callPollFunction([st EXCEPT !.polls = @ + 1], 0, wait)

\* start()
start(st) ==
  IF st.isRunning THEN st
  ELSE poll([st EXCEPT !.isRunning = TRUE], 0)

\* the .then / .catch of poll(): the next tick is scheduled
scheduleNext(st) ==
  IF st.isRunning
  THEN [st EXCEPT !.timer = Some(st.intervalMs), !.timeouts = @ + 1]
  ELSE st

pollFunctionSettlesNoLimit(st, e, outcome) ==
  LET ended == [st EXCEPT !.running = SelectSeq(@, LAMBDA x : x # st.running[e])]
  IN  IF outcome = "data" THEN scheduleNext(ended)
      ELSE [st EXCEPT !.running[e].phase = "sleeping"]

\* execution e of pollWithRetry: the awaited poll function settles
pollFunctionSettles(st, e, outcome) ==
  LET execution == st.running[e]
      ended == [st EXCEPT !.running = SelectSeq(@, LAMBDA x : x # execution)]
  IN  IF outcome = "data" THEN scheduleNext(ended)
      ELSE IF execution.attempt < st.maxRetries - 1
      THEN [st EXCEPT !.running[e].phase = "sleeping"]
      ELSE scheduleNext(ended)

\* execution e of pollWithRetry: sleep(retryDelayMs) is over, next attempt
sleepEnds(st, e) ==
  LET execution == st.running[e]
      resumed == [st EXCEPT !.running = SelectSeq(@, LAMBDA x : x # execution)]
  IN  callPollFunction(resumed, execution.attempt + 1, st.retryDelayMs)

\* stop()
stop(st) ==
  IF ~st.isRunning THEN st
  ELSE [st EXCEPT !.isRunning = FALSE,
                  !.timer = null,
                  !.timeouts = IF st.timer # null THEN @ - 1 ELSE @]

(***************************************************************************)
(* The supervisor (utils/logger.ts): the signal handler registered by      *)
(* setupGracefulShutdown / setupUnivariateShutdown                         *)
(*                                                                         *)
(* st is the handler with the connectors it was registered with:           *)
(* connectors is their number, handler where the async function stands     *)
(* ("idle" before a signal, "awaiting" a connector's shutdown(), "exited"  *)
(* after process.exit, "rejected" when its promise rejected), awaiting the *)
(* connector whose shutdown() is awaited.  History variables: finalized    *)
(* tells that forceFinalizeAll ran on the builders, called lists the       *)
(* connectors whose shutdown() was called, exitCode the argument of        *)
(* process.exit.                                                           *)
(***************************************************************************)
Supervisor(connectors) ==
  [connectors |-> connectors,
   handler    |-> "idle",
   awaiting   |-> 0,
   finalized  |-> FALSE,
   called     |-> <<>>,
   exitCode   |-> null]

\* for (const connector of connectors) await connector.shutdown(), from
\* connector i on; process.exit(0) after the last one
shutdownFrom(st, i) ==
  IF i <= st.connectors
  THEN [st EXCEPT !.handler = "awaiting", !.awaiting = i, !.called = Append(@, i)]
  ELSE [st EXCEPT !.handler = "exited", !.awaiting = 0, !.exitCode = Some(0)]

\* the shutdown closure up to its first await, the builders being finalized
\* by the caller
shutdown(st) == shutdownFrom([st EXCEPT !.finalized = TRUE], 1)

\* the awaited connector.shutdown() resolves or rejects
shutdownSettles(st, outcome) ==
  IF outcome = "resolves" THEN shutdownFrom(st, st.awaiting + 1)
  ELSE [st EXCEPT !.handler = "rejected", !.awaiting = 0]

(***************************************************************************)
(* The other normalizers: BinanceNormalizer                                *)
(* (connectors/binance/normalizer.ts), BloombergNormalizer                 *)
(* (connectors/bloomberg/normalizer.ts) and AccuWeatherNormalizer          *)
(*                                                                         *)
(* A numeric string is the sequence of its digits, "" and a missing string *)
(* are both <<>>; a missing number that the code only tests for truth is   *)
(* 0; an optional number is <<>> or <<n>>.  now is the wall clock read by  *)
(* new Date().                                                             *)
(***************************************************************************)
\* parseFloat of a string of digits
parseFloat(digits) == parseInt(digits)

\* BinanceNormalizer.normalizeTrade(data); normalizeAggTrade is the same
normalizeTrade(data) ==
  IF data.s = "" \/ data.p = <<>> \/ data.T = 0 THEN null
  ELSE Some([ts     |-> toISOString(data.T),
             price  |-> parseFloat(data.p),
             size   |-> Some(parseFloat(data.q)),
             symbol |-> data.s])

\* BinanceNormalizer.normalize(data)
BinanceNormalize(data) ==
  IF data.e = "trade" THEN normalizeTrade(data)
  ELSE IF data.e = "aggTrade" THEN normalizeTrade(data)
  ELSE null

\* an optional number is truthy
Truthy(x) == x # undefined /\ x[1] # 0

\* data.LAST_TRADE || data.LAST_PRICE || data.BID || data.ASK
FirstTruthy(data) ==
  IF Truthy(data.LAST_TRADE) THEN data.LAST_TRADE
  ELSE IF Truthy(data.LAST_PRICE) THEN data.LAST_PRICE
  ELSE IF Truthy(data.BID) THEN data.BID
  ELSE data.ASK

\* BloombergNormalizer.normalize(data, security)
BloombergNormalize(data, security, now) ==
  LET price == FirstTruthy(data)
  IN  IF price = undefined THEN null
      ELSE Some([ts     |-> IF data.TIME # undefined
                            THEN toISOString(getTime(data.TIME[1]))
                            ELSE toISOString(now),
                 price  |-> price[1],
                 size   |-> data.VOLUME,
                 symbol |-> security])

\* AccuWeatherNormalizer.normalize(raw, locationKey); Value is
\* raw.Temperature?.Metric?.Value
AccuWeatherNormalize(raw, locationKey, now) ==
  IF ~Truthy(raw.Value) THEN null
  ELSE Some([ts     |-> IF raw.LocalObservationDateTime # undefined
                        THEN toISOString(getTime(raw.LocalObservationDateTime[1]))
                        ELSE IF Truthy(raw.EpochTime)
                        THEN toISOString(raw.EpochTime[1] * 1000)
                        ELSE toISOString(now),
             price  |-> raw.Value[1],
             size   |-> raw.RelativeHumidity,
             symbol |-> locationKey])

(***************************************************************************)
(* BloombergConnector (connectors/bloomberg/bloombergConnector.ts) with    *)
(* its SubscriptionManager (connectors/bloomberg/subscriptionManager.ts)   *)
(*                                                                         *)
(* st is the connector: subscriptionManager holds the two maps and the     *)
(* next correlation identifier.  History variables: issued maps every      *)
(* identifier handed out to its security, until that security is removed   *)
(* or the manager cleared; duplicate tells that a security was subscribed  *)
(* while it already was; event is the last market-data event handled: its  *)
(* identifier, the security that identifier stood for when it arrived and  *)
(* the tick it fed, if any.                                                *)
(***************************************************************************)
SubscriptionManager ==
  [subscriptions |-> <<>>, nextCorrelationId |-> 0, securityToCorrelation |-> <<>>]

\* addSubscription(security, fields): returns the identifier it used,
\* m.nextCorrelationId
addSubscription(m, security) ==
  [m EXCEPT !.nextCorrelationId = @ + 1,
            !.subscriptions = MapSet(@, m.nextCorrelationId, [security |-> security]),
            !.securityToCorrelation = MapSet(@, security, m.nextCorrelationId)]

\* getSecurityByCorrelation(correlationId)
getSecurityByCorrelation(m, correlationId) ==
  IF MapHas(m.subscriptions, correlationId)
  THEN Some(MapGet(m.subscriptions, correlationId).security)
  ELSE null

\* getCorrelationBySecurity(security): securityToCorrelation.get(security) || null
getCorrelationBySecurity(m, security) ==
  IF ~MapHas(m.securityToCorrelation, security) THEN null
  ELSE IF MapGet(m.securityToCorrelation, security) = 0 THEN null
  ELSE Some(MapGet(m.securityToCorrelation, security))

\* removeSubscription(security)
removeSubscription(m, security) ==
  IF ~MapHas(m.securityToCorrelation, security) THEN m
  ELSE [m EXCEPT
          !.subscriptions = MapDelete(@, MapGet(m.securityToCorrelation, security)),
          !.securityToCorrelation = MapDelete(@, security)]

\* clear()
SubscriptionManagerClear(m) ==
  [m EXCEPT !.subscriptions = <<>>, !.securityToCorrelation = <<>>,
            !.nextCorrelationId = 0]

(***************************************************************************)
(* SessionManager (src/unnamed/part_006), as initialize() leaves it.       *)
(*                                                                         *)
(* session is the number of the live session, 0 for null; promises are the *)
(* promises performConnection() made, each with the session it waits for,  *)
(* its state and whether its 30 s timer is still armed; connectionPromise  *)
(* is the index of the cached promise, 0 for null.  History variables:     *)
(* sessions counts the sessions created, started is the set of sessions    *)
(* that raised SessionStarted, destroyed tells that disconnect() destroyed *)
(* a session since the last connect(), connects counts the connect() calls *)
(* and returned is the promise the last connect() call returned.           *)
(***************************************************************************)
SessionManager ==
  [session |-> 0, isConnected |-> FALSE, connectionPromise |-> 0,
   promises |-> <<>>, sessions |-> 0, started |-> {}, destroyed |-> FALSE,
   connects |-> 0, returned |-> 0]

\* performConnection(): a new session, a new promise and its timeout
performConnection(sm) ==
  [sm EXCEPT !.session = sm.sessions + 1,
             !.sessions = @ + 1,
             !.promises = Append(@, [session |-> sm.sessions + 1,
                                     state |-> "pending", timeout |-> TRUE])]

\* connect(): the cached promise if there is one, else performConnection()
SessionManagerConnect(sm) ==
  LET made == IF sm.connectionPromise # 0 THEN sm
              ELSE [performConnection(sm) EXCEPT
                      !.connectionPromise = Len(sm.promises) + 1]
  IN  [made EXCEPT !.connects = @ + 1, !.destroyed = FALSE,
                   !.returned = made.connectionPromise]

\* resolve() or reject() of promise p: a settled promise stays as it is
Settle(sm, p, state) ==
  IF sm.promises[p].state = "pending"
  THEN [sm EXCEPT !.promises[p].state = state]
  ELSE sm

\* session.on('SessionStarted') of the session promise p waits for
SessionStarted(sm, p) ==
  [Settle(sm, p, "fulfilled") EXCEPT
     !.promises[p].timeout = FALSE, !.isConnected = TRUE,
     !.started = @ \cup {sm.promises[p].session}]

\* session.on('SessionStartupFailure')
SessionStartupFailure(sm, p) ==
  [Settle(sm, p, "rejected") EXCEPT
     !.promises[p].timeout = FALSE, !.isConnected = FALSE]

\* the 30 s timer of promise p fires: reject(new Error('Connection timeout'))
ConnectionTimeout(sm, p) ==
  [Settle(sm, p, "rejected") EXCEPT !.promises[p].timeout = FALSE]

\* session.on('SessionTerminated')
SessionTerminated(sm) == [sm EXCEPT !.isConnected = FALSE]

\* disconnect()
SessionManagerDisconnect(sm) ==
  IF sm.session = 0 THEN sm
  ELSE [sm EXCEPT !.session = 0, !.isConnected = FALSE, !.destroyed = TRUE]

BloombergConnector ==
  [subscriptionManager |-> SubscriptionManager,
   sessionManager      |-> SessionManager,
   messageCount        |-> 0,
   issued              |-> <<>>,
   duplicate           |-> FALSE,
   event               |-> null]

\* a MarketDataEvents message: message.correlations[i].value and message.data
MarketDataEvent(correlations, data) == [correlations |-> correlations, data |-> data]

\* BloombergNormalizer.normalizeSubscriptionData(message, security)
normalizeSubscriptionData(message, security, now) ==
  IF message.data = undefined THEN null
  ELSE BloombergNormalize(message.data[1], security, now)

\* the tick handleMarketDataEvent(message) feeds to the aggregator, or null
handleMarketDataEvent(st, message, now) ==
  IF message.correlations = <<>> THEN null
  ELSE LET security == getSecurityByCorrelation(st.subscriptionManager,
                                                message.correlations[1])
       IN  IF security = null THEN null
           ELSE normalizeSubscriptionData(message, security[1], now)

(***************************************************************************)
(* PolygonRESTBackfill (connectors/polygon/restBackfill.ts): the           *)
(* pagination of fetchTradesInRange                                        *)
(*                                                                         *)
(* A response body is a record whose results field is undefined or holds   *)
(* the page: its length and the sip_timestamp of its last result, which    *)
(* may be undefined.  st is one call of fetchTradesInRange: phase tells    *)
(* whether it has not begun ("idle"), awaits fetchWithRetry ("awaiting"),  *)
(* has returned or has thrown; currentTimestamp is the local variable, NaN *)
(* when the last result had no sip_timestamp; allTrades counts the trades  *)
(* collected.  History variables: requests logs the bounds of every URL    *)
(* built, pages the bodies received.                                       *)
(***************************************************************************)
NaN == <<>>

PageLimit == 50000

PolygonRESTBackfill ==
  [phase            |-> "idle",
   toTimestamp      |-> 0,
   currentTimestamp |-> Some(0),
   allTrades        |-> 0,
   requests         |-> <<>>,
   pages            |-> <<>>]

\* a response body
Body(results) == [results |-> results]

Page(length, sip_timestamp) == [length |-> length, sip_timestamp |-> sip_timestamp]

\* buildTradesURL: the timestamp.gte and timestamp.lte parameters
buildTradesURL(fromTimestamp, toTimestamp) ==
  [gte |-> fromTimestamp, lte |-> toTimestamp]

\* fetchWithRetry(url), failures of its attempts being answered 429 or
\* failing before the body arrives: the body, or null when it throws
fetchWithRetry(failures, body) ==
  IF failures >= 3 THEN null ELSE Some(body)

\* while (currentTimestamp < toTimestamp): the next URL is built and
\* fetched, or the trades are returned
fetchNextPage(st) ==
  IF st.currentTimestamp # NaN /\ st.currentTimestamp[1] < st.toTimestamp
  THEN [st EXCEPT !.phase = "awaiting",
                  !.requests = Append(@, buildTradesURL(st.currentTimestamp[1],
                                                        st.toTimestamp))]
  ELSE [st EXCEPT !.phase = "returned"]

\* fetchTradesInRange(symbol, fromTimestamp, toTimestamp) up to its first await
fetchTradesInRange(st, fromTimestamp, toTimestamp) ==
  fetchNextPage([st EXCEPT !.toTimestamp = toTimestamp,
                           !.currentTimestamp = Some(fromTimestamp),
                           !.allTrades = 0])

\* last.sip_timestamp + 1
PastLast(sip_timestamp) ==
  IF sip_timestamp = undefined THEN NaN ELSE Some(sip_timestamp[1] + 1)

\* fetchTradesInRange resumes with what fetchWithRetry gave
pageSettles(st, response) ==
  IF response = null THEN [st EXCEPT !.phase = "threw"]
  ELSE LET body     == response[1]
           received == [st EXCEPT !.pages = Append(@, body)]
       IN  IF body.results = undefined \/ body.results[1].length = 0
           THEN [received EXCEPT !.phase = "returned"]
           ELSE LET pushed == [received EXCEPT
                                 !.allTrades = @ + body.results[1].length]
                IN  IF body.results[1].length < PageLimit
                    THEN [pushed EXCEPT !.phase = "returned"]
                    ELSE fetchNextPage(
                           [pushed EXCEPT !.currentTimestamp =
                              PastLast(body.results[1].sip_timestamp)])

(***************************************************************************)
(* BinanceConnector (connectors/binance/binanceConnector.ts) and the       *)
(* streams of its client (connectors/binance/websocketClient.ts)           *)
(*                                                                         *)
(* st is the connector: symbols and streams are the configuration the      *)
(* client was built with, isConnected the connector's flag.  urls holds,   *)
(* for every WebSocket the client constructed, the stream names of the URL *)
(* it was opened with, and subscribed the stream names the exchange sends  *)
(* on that socket.  History variables: added and removed are the symbols   *)
(* whose SUBSCRIBE and UNSUBSCRIBE frame was sent last.                    *)
(***************************************************************************)
BinanceConnector ==
  [symbols |-> {Symbol}, streams |-> {"trade", "aggTrade"}, isConnected |-> FALSE,
   urls |-> <<>>, subscribed |-> <<>>, added |-> {}, removed |-> {}]

\* symbol.toLowerCase()
toLowerCase(symbol) ==
  CASE symbol = "BTCUSDT" -> "btcusdt"
    [] symbol = "ETHUSDT" -> "ethusdt"

\* symbols.flatMap(symbol => streams.map(stream => `${lowerSymbol}@${stream}`))
streamNames(symbols, streams) ==
  {<<toLowerCase(symbol), "@", stream>> : symbol \in symbols, stream \in streams}

\* buildWebSocketURL(): the stream names of config.symbols
buildWebSocketURL(st) == streamNames(st.symbols, st.streams)

\* new WebSocket(url) in connect(): the socket is the next of the client
BinanceNewSocket(st) ==
  [st EXCEPT !.urls = Append(@, buildWebSocketURL(st)),
             !.subscribed = Append(@, {})]

\* onConnected() once socket i is open: the exchange sends the URL's streams
BinanceOnConnected(st, i) ==
  [st EXCEPT !.isConnected = TRUE, !.subscribed[i] = st.urls[i]]

\* onDisconnected() once socket i is closed
BinanceOnDisconnected(st, i) ==
  [st EXCEPT !.isConnected = FALSE, !.subscribed[i] = {}]

\* addSymbol(symbol): wsClient.subscribe([symbol]), ws being the client's
\* open socket or 0
addSymbol(st, ws, symbol) ==
  IF ~st.isConnected \/ ws = 0 THEN st
  ELSE [st EXCEPT !.subscribed[ws] = @ \cup streamNames({symbol}, st.streams),
                  !.added = @ \cup {symbol}, !.removed = @ \ {symbol}]

\* removeSymbol(symbol): wsClient.unsubscribe([symbol])
removeSymbol(st, ws, symbol) ==
  IF ~st.isConnected \/ ws = 0 THEN st
  ELSE [st EXCEPT !.subscribed[ws] = @ \ streamNames({symbol}, st.streams),
                  !.added = @ \ {symbol}, !.removed = @ \cup {symbol}]

(***************************************************************************)
(* AccuWeatherConnector (connectors/accuweather/accuweatherConnector.ts)   *)
(*                                                                         *)
(* st is the connector: isConnected and errorCount are its fields;         *)
(* connecting tells where a call of connect() stands ("idle" before it,    *)
(* "awaiting" its own poll(), "resolved" or "rejected").  Its polling loop *)
(* is the PollingLoop above.                                               *)
(***************************************************************************)
AccuWeatherConnector ==
  [isConnected |-> FALSE, errorCount |-> 0, connecting |-> "idle"]

\* connect() up to await this.poll(); the loop is created and started beside
AccuWeatherConnect(st) ==
  [st EXCEPT !.isConnected = TRUE, !.connecting = "awaiting"]

\* the poll() awaited by connect() settles: it rethrows what
\* fetchCurrentConditions threw
AccuWeatherConnectSettles(st, outcome) ==
  IF outcome = "data" THEN [st EXCEPT !.connecting = "resolved"]
  ELSE [st EXCEPT !.errorCount = @ + 1, !.connecting = "rejected"]

\* health().status
AccuWeatherHealth(st) == IF st.isConnected THEN "connected" ELSE "disconnected"

\* shutdown(), beside pollingLoop.stop()
AccuWeatherShutdown(st) == [st EXCEPT !.isConnected = FALSE]

(***************************************************************************)
(* State                                                                   *)
(***************************************************************************)
VARIABLES
  pipeline,       \* "ohlc": CandleBuilder pipeline, "univariate": UnivariateBuilder
  timeframes,     \* the builder's timeframe network
  candleBuilder,  \* the CandleBuilder of an "ohlc" pipeline
  univariateBuilder, \* the UnivariateBuilder of a "univariate" pipeline
  lastTick,       \* <<tick>> when the last step was addTick(tick), else <<>>
  ops,            \* operations performed so far
  recentOps,      \* the names of the last two operations on the builder
  buffer,         \* a Buffer used on its own
  univariateBuffer, \* a UnivariateBuffer used on its own
  ret,            \* the last call on either of them: what it was given,
                  \* the contents it found and what it returned
  dispatch,       \* the adapter's send call: idle, POST pending, or settled
  wsClient,       \* a streaming client with its sockets and timers
  polygonConnector, \* the equities connector with its stream and backfills
  pollingLoop,    \* the polling loop of the weather connector
  supervisor,     \* the signal handler of the process
  analysis,       \* the scheduled analysis round of the process
  bloomberg,      \* the terminal connector with its subscriptions
  restBackfill,   \* one call of fetchTradesInRange of the REST backfill
  accuWeather,    \* the weather connector, beside its polling loop
  binanceConnector \* the exchange connector, beside its wsClient

vendorVars == <<bloomberg, restBackfill, accuWeather, binanceConnector>>

\* the vendor connectors before they are used
InitVendor ==
  /\ bloomberg = BloombergConnector
  /\ restBackfill = PolygonRESTBackfill
  /\ accuWeather = AccuWeatherConnector
  /\ binanceConnector = BinanceConnector

vars == <<pipeline, timeframes, candleBuilder, univariateBuilder, lastTick, ops,
          recentOps, buffer, univariateBuffer, ret, dispatch, wsClient,
          polygonConnector, pollingLoop, supervisor, analysis, vendorVars>>

aggregatorVars ==
  <<pipeline, timeframes, candleBuilder, univariateBuilder, lastTick, ops, recentOps>>
bufferVars == <<buffer, univariateBuffer, ret>>
connectorVars ==
  <<wsClient, polygonConnector, pollingLoop, supervisor, analysis, vendorVars>>

Idle == [phase |-> "idle"]

\* no analysis round has run yet
Analysis ==
  [phase |-> "idle", at |-> 0, current |-> Idle, log |-> <<>>, rounds |-> 0]

\* recentOps after one more operation
Performed(op) == slice(Append(recentOps, op), -2)

NoCall == [op |-> "none", obj |-> "none", arg |-> <<>>, before |-> <<>>, value |-> <<>>]

(***************************************************************************)
(* Aggregation: ticks fed to the pipeline's builder                        *)
(***************************************************************************)
Init ==
  /\ pipeline \in {"ohlc", "univariate"}
  /\ timeframes \in Networks
  /\ candleBuilder = CandleBuilder(timeframes)
  /\ univariateBuilder = UnivariateBuilder(timeframes)
  /\ lastTick = <<>>
  /\ ops = 0
  /\ recentOps = <<>>
  /\ buffer = Buffer(1, <<"1", "s">>)
  /\ univariateBuffer = UnivariateBuffer(1, <<"1", "s">>)
  /\ ret = NoCall
  /\ dispatch = Idle
  /\ wsClient = PolygonWebSocketClient
  /\ polygonConnector = PolygonConnector(TRUE)
  /\ pollingLoop = PollingLoop(300000)
  /\ supervisor = Supervisor(1)
  /\ analysis = Analysis
  /\ InitVendor

\* candleBuilder.addTick(tick)
AddTick(tick) ==
  /\ pipeline = "ohlc"
  /\ ops < MaxOps
  /\ candleBuilder' = Caught(addTick(candleBuilder, tick, timeframes))
  /\ lastTick' = <<tick>>
  /\ ops' = ops + 1
  /\ recentOps' = Performed("addTick")
  /\ UNCHANGED <<pipeline, timeframes, univariateBuilder>>
  /\ UNCHANGED bufferVars
  /\ UNCHANGED connectorVars
  /\ UNCHANGED dispatch

\* candleBuilder.forceFinalizeAll()
ForceFinalizeAll ==
  /\ pipeline = "ohlc"
  /\ ops < MaxOps
  /\ candleBuilder' = Caught(forceFinalizeAll(candleBuilder, timeframes))
  /\ lastTick' = <<>>
  /\ ops' = ops + 1
  /\ recentOps' = Performed("forceFinalizeAll")
  /\ UNCHANGED <<pipeline, timeframes, univariateBuilder>>
  /\ UNCHANGED bufferVars
  /\ UNCHANGED connectorVars
  /\ UNCHANGED dispatch

\* univariateBuilder.addTick(tick)
UniAddTick(tick) ==
  /\ pipeline = "univariate"
  /\ ops < MaxOps
  /\ univariateBuilder' = UnivariateAddTick(univariateBuilder, tick, timeframes)
  /\ lastTick' = <<tick>>
  /\ ops' = ops + 1
  /\ recentOps' = Performed("addTick")
  /\ UNCHANGED <<pipeline, timeframes, candleBuilder>>
  /\ UNCHANGED bufferVars
  /\ UNCHANGED connectorVars
  /\ UNCHANGED dispatch

\* univariateBuilder.forceFinalizeAll()
UniForceFinalizeAll ==
  /\ pipeline = "univariate"
  /\ ops < MaxOps
  /\ univariateBuilder' = UnivariateForceFinalizeAll(univariateBuilder, timeframes)
  /\ lastTick' = <<>>
  /\ ops' = ops + 1
  /\ recentOps' = Performed("forceFinalizeAll")
  /\ UNCHANGED <<pipeline, timeframes, candleBuilder>>
  /\ UNCHANGED bufferVars
  /\ UNCHANGED connectorVars
  /\ UNCHANGED dispatch

Next ==
  \/ \E tick \in Ticks : AddTick(tick)
  \/ ForceFinalizeAll
  \/ \E tick \in Ticks : UniAddTick(tick)
  \/ UniForceFinalizeAll

Spec == Init /\ [][Next]_vars

(***************************************************************************)
(* Properties of the aggregation (specification Spec)                      *)
(***************************************************************************)
TimeframeSet == {timeframes[i] : i \in 1..Len(timeframes)}

\* every finalization so far, as a set of log entries
Finalizations ==
  IF pipeline = "ohlc"
  THEN {candleBuilder.finalized[i] : i \in 1..Len(candleBuilder.finalized)}
  ELSE {univariateBuilder.finalized[i] : i \in 1..Len(univariateBuilder.finalized)}

\* the records held by the buffer of timeframe tf
BufferRecords(tf) ==
  IF pipeline = "ohlc"
  THEN candleBuilder.buffers[tf.label].candles
  ELSE univariateBuilder.buffers[tf.label].dataPoints

\* every record of a buffer was pushed by a finalization for that buffer
BuffersHoldFinalizations ==
  \A tf \in TimeframeSet :
    \A j \in 1..Len(BufferRecords(tf)) :
      \E e \in Finalizations :
        e.label = tf.label /\ e.record = BufferRecords(tf)[j]

\* C2: consecutive records of every timeframe buffer have strictly
\* increasing datetimes whose difference is a multiple of the timeframe's
\* seconds, for ticks arriving in any order.
C2_ChronologicalBuffers ==
  pipeline = "ohlc" =>
    \A tf \in TimeframeSet :
      LET recs == BufferRecords(tf)
      IN  \A j \in 1..(Len(recs) - 1) :
            /\ getTime(recs[j].datetime) < getTime(recs[j + 1].datetime)
            /\ (getTime(recs[j + 1].datetime) - getTime(recs[j].datetime))
                 % (tf.seconds * 1000) = 0

OHLCOrdered(c) ==
  /\ c.low <= Min(c.open, c.close)
  /\ Min(c.open, c.close) <= Max(c.open, c.close)
  /\ Max(c.open, c.close) <= c.high

\* C3: every finalized candle, in a buffer or already evicted from it,
\* satisfies low <= min(open, close) <= max(open, close) <= high.
C3_CandleOrdered ==
  pipeline = "ohlc" =>
    /\ BuffersHoldFinalizations
    /\ \A e \in Finalizations : OHLCOrdered(e.record)

\* a buffer holds a candle folded from three ticks whose low is strictly
\* below its open and its close, and whose close is above its open
C3_Witness ==
  /\ pipeline = "ohlc"
  /\ \E tf \in TimeframeSet :
       \E j \in 1..Len(BufferRecords(tf)) :
         LET c == BufferRecords(tf)[j]
         IN  c.low < Min(c.open, c.close) /\ c.open < c.close

\* C4: the datetime of every record finalized into a timeframe's buffer is,
\* in epoch seconds, an exact multiple of that timeframe's seconds.
C4_AlignedDatetime ==
  /\ BuffersHoldFinalizations
  /\ \A e \in Finalizations :
       \A tf \in TimeframeSet :
         tf.label = e.label =>
           /\ getTime(e.record.datetime) % 1000 = 0
           /\ (getTime(e.record.datetime) \div 1000) % tf.seconds = 0

\* a record finalized into the 5s buffer for a window that started at
\* second 5, opened by a tick stamped at second 6
C4_Witness ==
  \E e \in Finalizations :
    /\ e.label = <<"5", "s">>
    /\ getTime(e.record.datetime) = 5000

RECURSIVE SumSizes(_)
SumSizes(ticks) ==
  IF ticks = <<>> THEN 0
  ELSE (IF Head(ticks).size = undefined THEN 0 ELSE Head(ticks).size[1])
         + SumSizes(Tail(ticks))

\* open, high, low, close and volume of c are the fold of ticks
IsFoldOf(c, ticks) ==
  /\ ticks # <<>>
  /\ c.open = ticks[1].price
  /\ c.close = ticks[Len(ticks)].price
  /\ \E i \in 1..Len(ticks) : c.high = ticks[i].price
  /\ \A i \in 1..Len(ticks) : ticks[i].price <= c.high
  /\ \E i \in 1..Len(ticks) : c.low = ticks[i].price
  /\ \A i \in 1..Len(ticks) : c.low <= ticks[i].price
  /\ c.volume = SumSizes(ticks)

\* C9: the candle finalized for a window is the fold, in arrival order, of
\* the ticks accumulated into its in-progress candle: open = first price,
\* close = last price, high = maximum, low = minimum, volume = sum of the
\* sizes with a missing size counted as 0; a candle in progress is the fold
\* of the ticks it has received so far.
C9_CandleIsFold ==
  pipeline = "ohlc" =>
    /\ BuffersHoldFinalizations
    /\ \A e \in Finalizations : IsFoldOf(e.record, e.ticks)
    /\ \A i \in 1..Len(candleBuilder.candlesInProgress) :
         LET c == candleBuilder.candlesInProgress[i].value
         IN  IsFoldOf(c, c.ticks)

\* a finalized candle folded from three ticks, one of them without a size,
\* with high > open > low, while a candle for a later window is in progress
C9_Witness ==
  /\ pipeline = "ohlc"
  /\ \E e \in Finalizations :
       /\ e.label = <<"1", "s">>
       /\ Len(e.ticks) = 3
       /\ \E i \in 1..3 : e.ticks[i].size = undefined
       /\ e.record.low < e.record.open
       /\ e.record.open < e.record.high
       /\ e.record.volume = 3
       /\ \E i \in 1..Len(candleBuilder.candlesInProgress) :
            candleBuilder.candlesInProgress[i].value.startTime
              > getTime(e.record.datetime)

\* the in-progress candles that timeframe tf created
InProgressOf(st, tf) ==
  {i \in 1..Len(st.candlesInProgress) :
     st.candlesInProgress[i].key
       = CandleKey(tf, st.candlesInProgress[i].value.startTime)}

\* C10: an accepted tick finalizes the in-progress candle of a timeframe
\* exactly when that timeframe has an in-progress candle for another window
\* than the tick's; the first tick ever opens one candle per timeframe and
\* finalizes nothing.
C10_RolloverPerTimeframe ==
  [][ ( /\ pipeline = "ohlc"
        /\ lastTick' # <<>>
        /\ lastTick'[1].symbol = Symbol
        /\ ops' = ops + 1 )
      =>
      LET tick  == lastTick'[1]
          old   == candleBuilder
          new   == candleBuilder'
          added == {k \in (Len(old.finalized) + 1)..Len(new.finalized) : TRUE}
      IN  /\ \A tf \in TimeframeSet :
               LET ws     == getWindowStart(getTime(tick.ts), tf.seconds)
                   others == {i \in InProgressOf(old, tf) :
                                old.candlesInProgress[i].value.startTime # ws}
                   pushed == {k \in added : new.finalized[k].label = tf.label}
               IN  /\ (pushed # {}) <=> (others # {})
                   /\ Cardinality(pushed) = Cardinality(others)
                   /\ \A k \in pushed : \E i \in others :
                        new.finalized[k].ticks
                          = old.candlesInProgress[i].value.ticks
                   /\ Cardinality(InProgressOf(new, tf)) = 1
          /\ (old.candlesInProgress = <<>> /\ old.finalized = <<>>) =>
               /\ Len(new.candlesInProgress) = Len(timeframes)
               /\ new.finalized = <<>>
               /\ \A tf \in TimeframeSet : new.buffers[tf.label].candles = <<>>
    ]_vars

\* a tick at second 0 followed by a tick at second 6: the window of second
\* 0 is finalized in the 1s buffer and in the 5s buffer
C10_Witness ==
  /\ pipeline = "ohlc"
  /\ ops = 2
  /\ Len(candleBuilder.buffers[<<"1", "s">>].candles) = 1
  /\ Len(candleBuilder.buffers[<<"5", "s">>].candles) = 1
  /\ getTime(candleBuilder.buffers[<<"1", "s">>].candles[1].datetime) = 0
  /\ getTime(candleBuilder.buffers[<<"5", "s">>].candles[1].datetime) = 0
  /\ candleBuilder.buffers[<<"1", "d">>].candles = <<>>
  /\ lastTick = <<NormalizedTick(6000, [price |-> 101, size |-> Some(2)], Symbol)>>

(***************************************************************************)
(* Completion listeners (specification SpecListeners): listeners are       *)
(* registered on the builder while it is fed one trade per instant         *)
(***************************************************************************)
\* the callbacks registered: each logs the record it is given
Listeners == {"logCandle", "logSummary"}

ListenerTicks ==
  { NormalizedTick(ms, [price |-> 100, size |-> Some(1)], Symbol) : ms \in TickTimes }

\* candleBuilder.onCandleComplete(listener)
OnCandleComplete(listener) ==
  /\ pipeline = "ohlc"
  /\ Len(candleBuilder.listeners) < MaxListeners
  /\ candleBuilder' = onCandleComplete(candleBuilder, listener)
  /\ lastTick' = <<>>
  /\ recentOps' = Performed("onComplete")
  /\ UNCHANGED <<pipeline, timeframes, univariateBuilder, ops>>
  /\ UNCHANGED bufferVars
  /\ UNCHANGED connectorVars
  /\ UNCHANGED dispatch

\* univariateBuilder.onDataPointComplete(listener)
OnDataPointComplete(listener) ==
  /\ pipeline = "univariate"
  /\ Len(univariateBuilder.listeners) < MaxListeners
  /\ univariateBuilder' = onDataPointComplete(univariateBuilder, listener)
  /\ lastTick' = <<>>
  /\ recentOps' = Performed("onComplete")
  /\ UNCHANGED <<pipeline, timeframes, candleBuilder, ops>>
  /\ UNCHANGED bufferVars
  /\ UNCHANGED connectorVars
  /\ UNCHANGED dispatch

NextListeners ==
  \/ \E tick \in ListenerTicks : AddTick(tick)
  \/ ForceFinalizeAll
  \/ \E listener \in Listeners : OnCandleComplete(listener)
  \/ \E tick \in ListenerTicks : UniAddTick(tick)
  \/ UniForceFinalizeAll
  \/ \E listener \in Listeners : OnDataPointComplete(listener)

SpecListeners == Init /\ [][NextListeners]_vars

\* the builder of the pipeline
Builder == IF pipeline = "ohlc" THEN candleBuilder ELSE univariateBuilder

\* the in-progress map of builder st
InProgress(st) ==
  IF pipeline = "ohlc" THEN st.candlesInProgress ELSE st.dataPointsInProgress

\* the records held by the buffer labelled label of builder st
RecordsOf(st, label) ==
  IF pipeline = "ohlc" THEN st.buffers[label].candles
  ELSE st.buffers[label].dataPoints

\* the record a finalization pushes for the in-progress value v
FinalRecord(v) ==
  IF pipeline = "ohlc"
  THEN [datetime |-> toISOString(v.startTime), open |-> v.open, high |-> v.high,
        low |-> v.low, close |-> v.close, volume |-> v.volume]
  ELSE [datetime |-> toISOString(v.startTime), value |-> v.value]

\* what push leaves in a buffer of capacity maxSize holding records
AfterPush(records, record, maxSize) ==
  IF Len(records) + 1 > maxSize THEN Tail(records) \o <<record>>
  ELSE records \o <<record>>

\* C11: forceFinalizeAll pushes every in-progress record exactly once, into
\* the buffer of the timeframe that opened it, and leaves the in-progress
\* map empty; a forceFinalizeAll that directly follows another one leaves
\* every buffer unchanged and invokes no listener.
C11_ForceFinalizeOnce ==
  [][ ( /\ recentOps' # <<>>
        /\ recentOps'[Len(recentOps')] = "forceFinalizeAll" )
      =>
      LET old   == Builder
          new   == Builder'
          added == (Len(old.finalized) + 1)..Len(new.finalized)
      IN  /\ InProgress(new) = <<>>
          /\ Cardinality(added) = Len(InProgress(old))
          /\ \A tf \in TimeframeSet :
               LET mine == {i \in 1..Len(InProgress(old)) :
                              InProgress(old)[i].key
                                = CandleKey(tf, InProgress(old)[i].value.startTime)}
                   pushed == {k \in added : new.finalized[k].label = tf.label}
               IN  /\ Cardinality(mine) <= 1
                   /\ Cardinality(pushed) = Cardinality(mine)
                   /\ \A i \in mine :
                        /\ \A k \in pushed :
                             new.finalized[k].record
                               = FinalRecord(InProgress(old)[i].value)
                        /\ RecordsOf(new, tf.label) =
                             AfterPush(RecordsOf(old, tf.label),
                                       FinalRecord(InProgress(old)[i].value),
                                       tf.bufferSize)
                   /\ mine = {} => RecordsOf(new, tf.label) = RecordsOf(old, tf.label)
          /\ \A i \in 1..Len(InProgress(old)) : \E tf \in TimeframeSet :
               InProgress(old)[i].key
                 = CandleKey(tf, InProgress(old)[i].value.startTime)
          /\ recentOps' = <<"forceFinalizeAll", "forceFinalizeAll">> =>
               /\ new.buffers = old.buffers
               /\ new.calls = old.calls
               /\ new.finalized = old.finalized
    ]_vars

\* two forceFinalizeAll calls in a row on a builder with a listener, the
\* first of which finalized one record per timeframe and notified it
C11_Witness ==
  /\ recentOps = <<"forceFinalizeAll", "forceFinalizeAll">>
  /\ Builder.listeners # <<>>
  /\ Len(Builder.finalized) = Len(timeframes)
  /\ Len(Builder.calls) = Len(timeframes) * Len(Builder.listeners)
  /\ \A tf \in TimeframeSet : Len(RecordsOf(Builder, tf.label)) = 1

\* the invocations finalizations from..Len(finalized) make on listeners
RECURSIVE ExpectedCalls(_, _, _)
ExpectedCalls(listeners, finalized, from) ==
  IF from > Len(finalized) THEN <<>>
  ELSE [i \in 1..Len(listeners) |->
          [listener     |-> listeners[i],
           record       |-> finalized[from].record,
           label        |-> finalized[from].label,
           newest       |-> Some(finalized[from].record),
           finalization |-> from]]
         \o ExpectedCalls(listeners, finalized, from + 1)

\* C13: within the step that makes it, each finalization invokes every
\* listener registered at that time once per registration, in registration
\* order, with (record, timeframe label), the record being at that moment
\* the newest entry of that timeframe's buffer; nothing else invokes a
\* listener.
C13_ListenersNotified ==
  [][ LET old == Builder
          new == Builder'
      IN  new.calls =
            old.calls \o ExpectedCalls(old.listeners, new.finalized,
                                       Len(old.finalized) + 1)
    ]_vars

\* a finalization made while two different listeners were registered has
\* invoked both, after an earlier one made with one listener registered
C13_Witness ==
  /\ Len(Builder.listeners) = 2
  /\ Builder.listeners[1] # Builder.listeners[2]
  /\ \E a, b \in 1..Len(Builder.calls) :
       /\ b = a + 1
       /\ Builder.calls[a].finalization = Builder.calls[b].finalization
       /\ Builder.calls[a].listener = Builder.listeners[1]
       /\ Builder.calls[b].listener = Builder.listeners[2]
       /\ Builder.calls[1].finalization < Builder.calls[a].finalization
       /\ \A c \in 1..Len(Builder.calls) :
            Builder.calls[c].finalization = 1 => c = 1

(***************************************************************************)
(* Rolling buffers used on their own (specification SpecBuffer)            *)
(***************************************************************************)
\* records pushed into a stand-alone buffer
SampleCandles ==
  { [datetime |-> toISOString(ms), open |-> 100, high |-> 101, low |-> 99,
     close |-> 100, volume |-> 5] : ms \in {0, 1000, 2000} }

SampleDataPoints ==
  { [datetime |-> toISOString(ms), value |-> 21] : ms \in {0, 60000, 120000} }

InitBuffer ==
  /\ pipeline = "ohlc"
  /\ timeframes \in Networks
  /\ candleBuilder = CandleBuilder(timeframes)
  /\ univariateBuilder = UnivariateBuilder(timeframes)
  /\ lastTick = <<>>
  /\ ops = 0
  /\ recentOps = <<>>
  /\ \E maxSize \in 1..MaxCapacity : buffer = Buffer(maxSize, <<"1", "s">>)
  /\ \E maxSize \in 1..MaxCapacity :
       univariateBuffer = UnivariateBuffer(maxSize, <<"1", "m">>)
  /\ ret = NoCall
  /\ dispatch = Idle
  /\ wsClient = PolygonWebSocketClient
  /\ polygonConnector = PolygonConnector(TRUE)
  /\ pollingLoop = PollingLoop(300000)
  /\ supervisor = Supervisor(1)
  /\ analysis = Analysis
  /\ InitVendor

\* buffer.push(candle)
Push(candle) ==
  /\ buffer' = BufferPush(buffer, candle)
  /\ ret' = [op |-> "push", obj |-> "Buffer", arg |-> <<candle>>,
             before |-> buffer.candles, value |-> <<>>]
  /\ UNCHANGED univariateBuffer
  /\ UNCHANGED aggregatorVars
  /\ UNCHANGED dispatch
  /\ UNCHANGED connectorVars

\* buffer.clear()
Clear ==
  /\ buffer' = BufferClear(buffer)
  /\ ret' = [op |-> "clear", obj |-> "Buffer", arg |-> <<>>,
             before |-> buffer.candles, value |-> <<>>]
  /\ UNCHANGED univariateBuffer
  /\ UNCHANGED aggregatorVars
  /\ UNCHANGED dispatch
  /\ UNCHANGED connectorVars

\* buffer.getLast(count)
GetLast(count) ==
  /\ ret' = [op |-> "getLast", obj |-> "Buffer", arg |-> <<count>>,
             before |-> buffer.candles, value |-> BufferGetLast(buffer, count)]
  /\ UNCHANGED <<buffer, univariateBuffer>>
  /\ UNCHANGED aggregatorVars
  /\ UNCHANGED dispatch
  /\ UNCHANGED connectorVars

\* univariateBuffer.push(dataPoint)
UniPush(dataPoint) ==
  /\ univariateBuffer' = UnivariateBufferPush(univariateBuffer, dataPoint)
  /\ ret' = [op |-> "push", obj |-> "UnivariateBuffer", arg |-> <<dataPoint>>,
             before |-> univariateBuffer.dataPoints, value |-> <<>>]
  /\ UNCHANGED buffer
  /\ UNCHANGED aggregatorVars
  /\ UNCHANGED dispatch
  /\ UNCHANGED connectorVars

\* univariateBuffer.clear()
UniClear ==
  /\ univariateBuffer' = UnivariateBufferClear(univariateBuffer)
  /\ ret' = [op |-> "clear", obj |-> "UnivariateBuffer", arg |-> <<>>,
             before |-> univariateBuffer.dataPoints, value |-> <<>>]
  /\ UNCHANGED buffer
  /\ UNCHANGED aggregatorVars
  /\ UNCHANGED dispatch
  /\ UNCHANGED connectorVars

\* univariateBuffer.getLast(count)
UniGetLast(count) ==
  /\ ret' = [op |-> "getLast", obj |-> "UnivariateBuffer", arg |-> <<count>>,
             before |-> univariateBuffer.dataPoints,
             value |-> UnivariateBufferGetLast(univariateBuffer, count)]
  /\ UNCHANGED <<buffer, univariateBuffer>>
  /\ UNCHANGED aggregatorVars
  /\ UNCHANGED dispatch
  /\ UNCHANGED connectorVars

NextBuffer ==
  \/ \E candle \in SampleCandles : Push(candle)
  \/ Clear
  \/ \E count \in 0..MaxGet : GetLast(count)
  \/ \E dataPoint \in SampleDataPoints : UniPush(dataPoint)
  \/ UniClear
  \/ \E count \in 0..MaxGet : UniGetLast(count)

SpecBuffer == InitBuffer /\ [][NextBuffer]_vars

\* the contents of the buffer the last call was made on
ContentsOf(obj) ==
  IF obj = "Buffer" THEN buffer.candles ELSE univariateBuffer.dataPoints

MaxSizeOf(obj) ==
  IF obj = "Buffer" THEN buffer.maxSize ELSE univariateBuffer.maxSize

\* C1: after any sequence of push and clear on a rolling buffer of capacity
\* C >= 1, the buffer's size never exceeds C.
C1_SizeWithinCapacity ==
  /\ buffer.maxSize >= 1 => BufferSizeOf(buffer) <= buffer.maxSize
  /\ univariateBuffer.maxSize >= 1 =>
       UnivariateBufferSizeOf(univariateBuffer) <= univariateBuffer.maxSize

\* a record has just been pushed onto a Buffer that was already full
C1_Witness ==
  /\ ret.op = "push"
  /\ ret.obj = "Buffer"
  /\ Len(ret.before) = buffer.maxSize
  /\ BufferIsFull(buffer)

\* the min(n, size) most recent records of contents, oldest first
MostRecent(contents, n) ==
  LET k == Min(n, Len(contents))
  IN  [i \in 1..k |-> contents[Len(contents) - k + i]]

\* C7: getLast(n), n >= 0, returns exactly the min(n, size) most recent
\* records in chronological order and leaves the buffer unchanged; an empty
\* buffer has size 0, no oldest or newest datetime, and getLast returns an
\* empty list.
C7_GetLastMostRecent ==
  /\ ret.op = "getLast" =>
       /\ ret.value = MostRecent(ret.before, ret.arg[1])
       /\ ContentsOf(ret.obj) = ret.before
  /\ buffer.candles = <<>> =>
       /\ BufferSizeOf(buffer) = 0
       /\ BufferGetOldestTimestamp(buffer) = null
       /\ BufferGetNewestTimestamp(buffer) = null
       /\ \A n \in 0..MaxGet : BufferGetLast(buffer, n) = <<>>
  /\ univariateBuffer.dataPoints = <<>> =>
       /\ UnivariateBufferSizeOf(univariateBuffer) = 0
       /\ UnivariateBufferGetOldestTimestamp(univariateBuffer) = null
       /\ UnivariateBufferGetNewestTimestamp(univariateBuffer) = null
       /\ \A n \in 0..MaxGet : UnivariateBufferGetLast(univariateBuffer, n) = <<>>

\* C8: a push onto a buffer that holds capacity-many records evicts exactly
\* the oldest record and appends the new one last; a push onto a buffer
\* that is not full evicts nothing.
C8_PushIsFifo ==
  ret.op = "push" =>
    ContentsOf(ret.obj) =
      IF Len(ret.before) = MaxSizeOf(ret.obj)
      THEN Tail(ret.before) \o ret.arg
      ELSE ret.before \o ret.arg

\* a record has just been pushed onto a full Buffer of capacity two or more
\* whose oldest and newest records differed
C8_Witness ==
  /\ ret.op = "push"
  /\ ret.obj = "Buffer"
  /\ buffer.maxSize >= 2
  /\ Len(ret.before) = buffer.maxSize
  /\ ret.before[1] # ret.before[Len(ret.before)]
  /\ ret.arg[1] # ret.before[1]

(***************************************************************************)
(* CILAdapter (core/cilAdapter.ts) and UnivariateAdapter                   *)
(* (core/univariateBuilder.ts)                                             *)
(*                                                                         *)
(* A CSV body is the sequence of its lines, a line the tuple of its        *)
(* comma-separated fields.                                                 *)
(***************************************************************************)
DefaultRowCount == 5001

\* rowCount: config.rowCount || 5001
CILAdapter(config) ==
  [rowCount |-> IF config.rowCount = 0 THEN DefaultRowCount ELSE config.rowCount]

\* label.match(/^(\d+)(s|m|h)$/)
LabelMatches(label) ==
  /\ Len(label) >= 2
  /\ label[Len(label)] \in {"s", "m", "h"}
  /\ \A i \in 1..(Len(label) - 1) : IsDigit(label[i])

getTimeframeSeconds(label) ==
  IF ~LabelMatches(label) THEN 60
  ELSE LET value == parseInt(SubSeq(label, 1, Len(label) - 1))
           unit  == label[Len(label)]
       IN  CASE unit = "s" -> value
             [] unit = "m" -> value * 60
             [] unit = "h" -> value * 3600

getNextDatetime(lastDatetime, timeframeLabel) ==
  toISOString(getTime(lastDatetime) + getTimeframeSeconds(timeframeLabel) * 1000)

\* candles is not empty: candles[candles.length - 1].datetime throws otherwise
buildCSVPayload(candles, timeframeLabel) ==
  LET header == <<"datetime", "open", "high", "low", "close">>
      rows   == [i \in 1..Len(candles) |->
                   <<candles[i].datetime, candles[i].open, candles[i].high,
                     candles[i].low, candles[i].close>>]
      lastCandle   == candles[Len(candles)]
      nextDatetime == getNextDatetime(lastCandle.datetime, timeframeLabel)
  IN  <<header>> \o rows \o << <<nextDatetime, 0, 0, 0, 0>> >>

\* the result of a send that returned or threw before any POST
Unsent(result, adapter, timeframeLabel, records) ==
  [phase    |-> "settled",
   result   |-> result,
   posted   |-> FALSE,
   rowCount |-> adapter.rowCount,
   label    |-> timeframeLabel,
   snapshot |-> records]

sendToCILNoCheck(adapter, b, timeframeLabel) ==
  LET candles == BufferGetLast(b, adapter.rowCount - 1)
  IN  IF candles = <<>>
      THEN Unsent("rejected", adapter, timeframeLabel, b.candles)
      ELSE [phase    |-> "pending",
            rowCount |-> adapter.rowCount,
            label    |-> timeframeLabel,
            snapshot |-> b.candles,
            body     |-> buildCSVPayload(candles, timeframeLabel)]

\* the synchronous part of sendToCIL(buffer, timeframeLabel), up to the POST
sendToCIL(adapter, b, timeframeLabel) ==
  LET candles == BufferGetLast(b, adapter.rowCount - 1)
  IN  IF Len(candles) < adapter.rowCount - 1
      THEN Unsent("null", adapter, timeframeLabel, b.candles)
      ELSE IF candles = <<>>
      THEN Unsent("rejected", adapter, timeframeLabel, b.candles)
      ELSE [phase    |-> "pending",
            rowCount |-> adapter.rowCount,
            label    |-> timeframeLabel,
            snapshot |-> b.candles,
            body     |-> buildCSVPayload(candles, timeframeLabel)]

UnivariateAdapter(config) ==
  [rowCount |-> IF config.rowCount = 0 THEN DefaultRowCount ELSE config.rowCount]

UnivariateGetTimeframeSeconds(label) ==
  IF ~LabelMatches(label) THEN 60
  ELSE LET value == parseInt(SubSeq(label, 1, Len(label) - 1))
           unit  == label[Len(label)]
       IN  CASE unit = "s" -> value
             [] unit = "m" -> value * 60
             [] unit = "h" -> value * 3600

UnivariateGetNextDatetime(lastDatetime, timeframeLabel) ==
  toISOString(getTime(lastDatetime)
                + UnivariateGetTimeframeSeconds(timeframeLabel) * 1000)

UnivariateBuildCSVPayload(dataPoints, timeframeLabel) ==
  LET header == <<"datetime", "value">>
      rows   == [i \in 1..Len(dataPoints) |->
                   <<dataPoints[i].datetime, dataPoints[i].value>>]
      lastDataPoint == dataPoints[Len(dataPoints)]
      nextDatetime  ==
        UnivariateGetNextDatetime(lastDataPoint.datetime, timeframeLabel)
  IN  <<header>> \o rows \o << <<nextDatetime, 0>> >>

sendToUnivariate(adapter, b, timeframeLabel) ==
  LET dataPoints == UnivariateBufferGetLast(b, adapter.rowCount - 1)
  IN  IF Len(dataPoints) < adapter.rowCount - 1
      THEN Unsent("null", adapter, timeframeLabel, b.dataPoints)
      ELSE IF dataPoints = <<>>
      THEN Unsent("rejected", adapter, timeframeLabel, b.dataPoints)
      ELSE [phase    |-> "pending",
            rowCount |-> adapter.rowCount,
            label    |-> timeframeLabel,
            snapshot |-> b.dataPoints,
            body     |-> UnivariateBuildCSVPayload(dataPoints, timeframeLabel)]

\* what the awaited POST settles to: a 2xx response with a JSON body is
\* parsed, a non-2xx status or a network error is caught and yields null
postOutcome(outcome) ==
  [phase  |-> "settled",
   result |-> IF outcome = "ok" THEN "response" ELSE "null",
   posted |-> TRUE]

(***************************************************************************)
(* The scheduled analysis of the supervisor (utils/logger.ts,              *)
(* setupCILAnalysis / setupUnivariateAnalysis): every minute one round     *)
(* over the timeframe buffers of the builder                               *)
(*                                                                         *)
(* st is the round: phase tells whether the async callback is not running  *)
(* ("idle"), awaits a POST ("awaiting"), has returned ("done") or has      *)
(* rejected ("failed"); at is the timeframe whose send is awaited and      *)
(* current that send.  History variable: log has one entry per timeframe   *)
(* the round has dealt with: whether its buffer was full enough, whether a *)
(* POST was made, how the POST ended and the result of the send.           *)
(***************************************************************************)
\* rowCount: 5001 of the adapters the supervisor creates, scaled to the
\* capacity of the buffers
AnalysisRowCount == 3

\* buffer.size() >= 5000, that is rowCount - 1
AnalysisThreshold == AnalysisRowCount - 1

\* buffer.size() of a buffer of pipeline p
analysisSize(p, b) ==
  IF p = "ohlc" THEN BufferSizeOf(b) ELSE UnivariateBufferSizeOf(b)

\* cilAdapter.sendToCIL(buffer, timeframe) or
\* univariateAdapter.sendToUnivariate(buffer, timeframe), up to the POST
analysisSend(p, b, label) ==
  IF p = "ohlc"
  THEN sendToCIL(CILAdapter([rowCount |-> AnalysisRowCount]), b, label)
  ELSE sendToUnivariate(UnivariateAdapter([rowCount |-> AnalysisRowCount]), b, label)

\* for (const [timeframe, buffer] of buffers), from entry i on and up to the
\* first POST that is awaited
RECURSIVE analyse(_, _, _, _, _)
analyse(st, p, builder, tfs, i) ==
  IF i > Len(tfs) THEN [st EXCEPT !.phase = "done", !.at = 0, !.current = Idle]
  ELSE
    LET label == tfs[i].label
        b     == builder.buffers[label]
    IN  IF analysisSize(p, b) < AnalysisThreshold
        THEN analyse([st EXCEPT !.log = Append(@, [label   |-> label,
                                                    full    |-> FALSE,
                                                    posted  |-> FALSE,
                                                    outcome |-> "none",
                                                    result  |-> "none"])],
                     p, builder, tfs, i + 1)
        ELSE
          LET sent == analysisSend(p, b, label)
              entry == [label   |-> label,
                        full    |-> TRUE,
                        posted  |-> FALSE,
                        outcome |-> "none",
                        result  |-> IF sent.phase = "settled" THEN sent.result
                                    ELSE "none"]
          IN  IF sent.phase = "pending"
              THEN [st EXCEPT !.phase = "awaiting", !.at = i, !.current = sent]
              ELSE IF sent.result = "rejected"
              THEN [st EXCEPT !.phase = "failed", !.at = 0, !.current = Idle,
                              !.log = Append(@, entry)]
              ELSE analyse([st EXCEPT !.log = Append(@, entry)],
                           p, builder, tfs, i + 1)

\* the setInterval callback starts a round
analysisRound(st, p, builder, tfs) ==
  analyse([st EXCEPT !.log = <<>>, !.rounds = @ + 1], p, builder, tfs, 1)

analysisSettlesAborting(st, p, builder, tfs, outcome) ==
  LET settled == postOutcome(outcome)
      logged  == [st EXCEPT !.log = Append(@, [label   |-> tfs[st.at].label,
                                               full    |-> TRUE,
                                               posted  |-> TRUE,
                                               outcome |-> outcome,
                                               result  |-> settled.result])]
  IN  IF outcome = "ok" THEN analyse(logged, p, builder, tfs, st.at + 1)
      ELSE [logged EXCEPT !.phase = "failed", !.at = 0, !.current = Idle]

\* the awaited send settles: if (result) log it, then the next timeframe
analysisSettles(st, p, builder, tfs, outcome) ==
  LET settled == postOutcome(outcome)
      logged  == [st EXCEPT !.log = Append(@, [label   |-> tfs[st.at].label,
                                               full    |-> TRUE,
                                               posted  |-> TRUE,
                                               outcome |-> outcome,
                                               result  |-> settled.result])]
  IN  analyse(logged, p, builder, tfs, st.at + 1)

(***************************************************************************)
(* Dispatch (specification SpecDispatch): the aggregator is fed one trade  *)
(* per instant while an adapter sends its buffers                          *)
(***************************************************************************)
DispatchTicks ==
  { NormalizedTick(ms, [price |-> 100, size |-> Some(1)], Symbol) : ms \in TickTimes }

\* cilAdapter.sendToCIL(candleBuilder.getBuffer(label), label)
SendToCIL(config, tf) ==
  /\ pipeline = "ohlc"
  /\ dispatch.phase # "pending"
  /\ dispatch' = sendToCIL(CILAdapter(config), candleBuilder.buffers[tf.label], tf.label)
  /\ UNCHANGED aggregatorVars
  /\ UNCHANGED bufferVars
  /\ UNCHANGED connectorVars

\* univariateAdapter.sendToUnivariate(univariateBuilder.getBuffer(label), label)
SendToUnivariate(config, tf) ==
  /\ pipeline = "univariate"
  /\ dispatch.phase # "pending"
  /\ dispatch' = sendToUnivariate(UnivariateAdapter(config),
                                  univariateBuilder.buffers[tf.label], tf.label)
  /\ UNCHANGED aggregatorVars
  /\ UNCHANGED bufferVars
  /\ UNCHANGED connectorVars

\* the pending POST settles
PostSettles(outcome) ==
  /\ dispatch.phase = "pending"
  /\ dispatch' = postOutcome(outcome)
  /\ UNCHANGED aggregatorVars
  /\ UNCHANGED bufferVars
  /\ UNCHANGED connectorVars

NextDispatch ==
  \/ \E tick \in DispatchTicks : AddTick(tick)
  \/ ForceFinalizeAll
  \/ \E tick \in DispatchTicks : UniAddTick(tick)
  \/ UniForceFinalizeAll
  \/ \E rowCount \in 0..MaxRowCount : \E i \in 1..Len(timeframes) :
       SendToCIL([rowCount |-> rowCount], timeframes[i])
  \/ \E rowCount \in 0..MaxRowCount : \E i \in 1..Len(timeframes) :
       SendToUnivariate([rowCount |-> rowCount], timeframes[i])
  \/ \E outcome \in {"ok", "non2xx", "networkError"} : PostSettles(outcome)

SpecDispatch == Init /\ [][NextDispatch]_vars

\* the numeric fields of a CSV line are all zero
NumericFieldsZero(line) == \A k \in 2..Len(line) : line[k] = 0

\* the CSV line of a buffer record
LineOf(r) ==
  IF pipeline = "ohlc" THEN <<r.datetime, r.open, r.high, r.low, r.close>>
  ELSE <<r.datetime, r.value>>

\* C5: the body of every POST has exactly rowCount + 1 lines: the header,
\* the rowCount - 1 most recent buffer records in chronological order, and
\* a final placeholder row whose numeric fields are all zero.
C5_PayloadShape ==
  dispatch.phase = "pending" =>
    LET body   == dispatch.body
        recent == MostRecent(dispatch.snapshot, dispatch.rowCount - 1)
    IN  /\ Len(body) = dispatch.rowCount + 1
        /\ body[1] = IF pipeline = "ohlc"
                     THEN <<"datetime", "open", "high", "low", "close">>
                     ELSE <<"datetime", "value">>
        /\ SubSeq(body, 2, Len(body) - 1) = [i \in 1..Len(recent) |-> LineOf(recent[i])]
        /\ NumericFieldsZero(body[Len(body)])

\* C6: the placeholder row's datetime is the last real record's datetime
\* plus the configured seconds of the timeframe the buffer belongs to.
C6_PlaceholderNextWindow ==
  dispatch.phase = "pending" =>
    \A tf \in TimeframeSet :
      tf.label = dispatch.label =>
        getTime(dispatch.body[Len(dispatch.body)][1])
          = getTime(dispatch.snapshot[Len(dispatch.snapshot)].datetime)
              + tf.seconds * 1000

\* C12: a send on a buffer that holds fewer than rowCount - 1 records
\* returns none, issues no POST and leaves the builder's buffers unchanged.
C12_InsufficientReturnsNone ==
  [][ ( /\ dispatch.phase # "pending"
        /\ ops' = ops
        /\ dispatch' # dispatch )
      =>
      LET sent == dispatch'
      IN  Len(RecordsOf(Builder, sent.label)) < sent.rowCount - 1 =>
            /\ sent.phase = "settled"
            /\ sent.result = "null"
            /\ ~sent.posted
            /\ sent.snapshot = RecordsOf(Builder, sent.label)
            /\ Builder' = Builder
    ]_vars

\* a send with rowCount 3 on a buffer holding one record has returned none
C12_Witness ==
  /\ dispatch.phase = "settled"
  /\ ~dispatch.posted
  /\ dispatch.result = "null"
  /\ dispatch.rowCount = 3
  /\ Len(dispatch.snapshot) = 1
  /\ RecordsOf(Builder, dispatch.label) = dispatch.snapshot

(***************************************************************************)
(* Streaming client (specification SpecSocket): the sockets of one client  *)
(* open and close, its timers fire and shutdown() is called, in any order  *)
(***************************************************************************)
InitSocket ==
  /\ pipeline = "ohlc"
  /\ timeframes \in Networks
  /\ candleBuilder = CandleBuilder(timeframes)
  /\ univariateBuilder = UnivariateBuilder(timeframes)
  /\ lastTick = <<>>
  /\ ops = 0
  /\ recentOps = <<>>
  /\ buffer = Buffer(1, <<"1", "s">>)
  /\ univariateBuffer = UnivariateBuffer(1, <<"1", "s">>)
  /\ ret = NoCall
  /\ dispatch = Idle
  /\ wsClient \in {BinanceWebSocketClient(config) : config \in BinanceConfigs}
                    \cup {PolygonWebSocketClient}
  /\ polygonConnector = PolygonConnector(TRUE)
  /\ pollingLoop = PollingLoop(300000)
  /\ supervisor = Supervisor(1)
  /\ analysis = Analysis
  /\ InitVendor

othersThanSocket ==
  <<aggregatorVars, buffer, univariateBuffer, dispatch, polygonConnector,
    pollingLoop, supervisor, analysis, vendorVars>>

\* times since the last frame, in milliseconds
Silences == {10000, 70000, 100000}

\* what the client's last step did, when it was a heartbeat with the socket
\* open or a frame sent
Beat(kind, timeSinceLastMessage, open, did) ==
  [op |-> "heartbeat", obj |-> kind, arg |-> <<timeSinceLastMessage>>,
   before |-> <<open>>, value |-> <<did>>]

Frame(kind, frame, socket) ==
  [op |-> "send", obj |-> kind, arg |-> <<frame>>, before |-> <<>>,
   value |-> <<socket>>]

\* the delay of the reconnect timeout started between before and now
Scheduled(before, now) ==
  LET started == {t \in now.timers \ before.timers : t.kind = "reconnect"}
  IN  IF started = {} THEN null ELSE Some((CHOOSE t \in started : TRUE).delay)

\* connector.connect(): wsClient.connect()
Connect ==
  /\ wsClient.sockets = <<>>
  /\ ~wsClient.isShuttingDown
  /\ wsClient' = IF wsClient.kind = "binance" THEN BinanceConnect(wsClient)
                 ELSE PolygonConnect(wsClient)
  /\ ret' = NoCall
  /\ UNCHANGED othersThanSocket

\* socket i emits 'open'
SocketOpens(i) ==
  /\ wsClient.sockets[i] = "CONNECTING"
  /\ LET opened == [wsClient EXCEPT !.sockets[i] = "OPEN", !.closes = <<>>]
     IN  /\ wsClient' = IF wsClient.kind = "binance" THEN BinanceOnOpen(opened)
                        ELSE PolygonOnOpen(opened)
  /\ ret' = NoCall
  /\ UNCHANGED othersThanSocket

\* socket i emits 'close': it was closed by either side, or never connected
SocketCloses(i) ==
  /\ wsClient.sockets[i] # "CLOSED"
  /\ LET closed  == [wsClient EXCEPT !.sockets[i] = "CLOSED"]
         handled == IF wsClient.kind = "binance" THEN BinanceOnClose(closed)
                    ELSE PolygonOnClose(closed)
     IN  wsClient' = [handled EXCEPT
                        !.closes = Append(@, Scheduled(closed, handled)),
                        !.authenticated = IF @ = i THEN 0 ELSE @]
  /\ ret' = NoCall
  /\ UNCHANGED othersThanSocket

\* the open socket i of the Polygon client delivers a status message
StatusMessage(i, status) ==
  /\ wsClient.kind = "polygon"
  /\ wsClient.sockets[i] = "OPEN"
  /\ wsClient' = handleStatusMessage(wsClient, i, status)
  /\ ret' = NoCall
  /\ UNCHANGED othersThanSocket

\* a pending timeout fires
TimerFires(t) ==
  /\ t \in wsClient.timers
  /\ t.kind = "reconnect" => Len(wsClient.sockets) < MaxSockets
  /\ LET fired == [wsClient EXCEPT !.timers = @ \ {t}]
     IN  /\ wsClient' =
               CASE t.kind = "reconnect" ->
                      IF wsClient.kind = "binance" THEN BinanceReconnectFires(fired)
                      ELSE PolygonConnect(fired)
                 [] t.kind = "subscribe" -> PolygonSubscribe(fired)
                 [] t.kind = "connectTimeout" -> fired
         /\ ret' = IF t.kind = "subscribe" /\ wsIsOpen(fired)
                   THEN Frame("polygon", "subscribe", fired.ws)
                   ELSE NoCall
  /\ UNCHANGED othersThanSocket

\* the ping / heartbeat interval fires
HeartbeatFires(timeSinceLastMessage) ==
  /\ wsClient.heartbeatTimer
  /\ IF wsClient.kind = "binance"
     THEN /\ wsClient' = BinancePingFires(wsClient, timeSinceLastMessage)
          /\ ret' = IF wsIsOpen(wsClient)
                    THEN Beat("binance", timeSinceLastMessage, TRUE,
                              BinancePing(wsClient, timeSinceLastMessage))
                    ELSE NoCall
     ELSE /\ wsClient' = PolygonHeartbeatFires(wsClient, timeSinceLastMessage)
          /\ ret' = IF wsIsOpen(wsClient)
                    THEN Beat("polygon", timeSinceLastMessage, TRUE,
                              PolygonHeartbeat(wsClient, timeSinceLastMessage))
                    ELSE NoCall
  /\ UNCHANGED othersThanSocket

\* wsClient.shutdown() is called and returns
Shutdown ==
  /\ wsClient.shutdowns < 2
  /\ LET down == IF wsClient.kind = "binance" THEN BinanceShutdown(wsClient)
                 ELSE PolygonShutdown(wsClient)
     IN  wsClient' = [down EXCEPT !.shutdowns = @ + 1]
  /\ ret' = NoCall
  /\ UNCHANGED othersThanSocket

NextSocket ==
  \/ Connect
  \/ \E i \in 1..Len(wsClient.sockets) : SocketOpens(i)
  \/ \E i \in 1..Len(wsClient.sockets) : SocketCloses(i)
  \/ \E i \in 1..Len(wsClient.sockets) :
       \E status \in {"connected", "auth_success"} : StatusMessage(i, status)
  \/ \E t \in wsClient.timers : TimerFires(t)
  \/ \E timeSinceLastMessage \in Silences : HeartbeatFires(timeSinceLastMessage)
  \/ Shutdown

SpecSocket == InitSocket /\ [][NextSocket]_vars

\* C14: the n-th consecutive close of a client's socket (n = 0, 1, 2, ...,
\* counted from the last time a socket opened) schedules the next connect
\* attempt min(base * 2^n, 60 s) later, base being the client's reconnect
\* delay, as long as fewer than the maximum number of attempts were made
\* and the client is not shutting down.
C14_BackoffDelays ==
  \A n \in 0..(Len(wsClient.closes) - 1) :
    LET entry == wsClient.closes[n + 1]
    IN  /\ entry # null =>
             entry[1] = Min(wsClient.reconnectDelay * 2 ^ n, 60000)
        /\ (n < wsClient.maxReconnectAttempts /\ ~wsClient.isShuttingDown) =>
             entry # null

\* a socket has closed MaxSockets times in a row without one opening, the
\* first three delays being base, 2 * base and 4 * base and the last one
\* being capped at 60 s
C14_Witness ==
  /\ Len(wsClient.closes) = MaxSockets
  /\ \A n \in 1..MaxSockets : wsClient.closes[n] # null
  /\ wsClient.closes[1][1] = wsClient.reconnectDelay
  /\ wsClient.closes[2][1] = 2 * wsClient.reconnectDelay
  /\ wsClient.closes[3][1] = 4 * wsClient.reconnectDelay
  /\ wsClient.closes[MaxSockets][1] = 60000
  /\ wsClient.reconnectDelay * 2 ^ (MaxSockets - 1) > 60000

\* C17: once shutdown() has returned, every timer the client started has
\* been cancelled (none is pending, the heartbeat interval is stopped), the
\* client holds no socket and no socket is connecting or open, and nothing
\* is connected or sent afterwards.
C17_ShutdownStopsAll ==
  wsClient.shutdowns > 0 =>
    /\ wsClient.timers = {}
    /\ ~wsClient.heartbeatTimer
    /\ wsClient.ws = 0
    /\ \A i \in 1..Len(wsClient.sockets) :
         wsClient.sockets[i] \notin {"CONNECTING", "OPEN"}
    /\ wsClient.after = {}

(***************************************************************************)
(* Backfill (specification SpecBackfill): the equities connector feeds its *)
(* aggregator from the live stream and from backfills after disconnects    *)
(***************************************************************************)
InitBackfill ==
  /\ pipeline = "ohlc"
  /\ timeframes \in Networks
  /\ candleBuilder = CandleBuilder(timeframes)
  /\ univariateBuilder = UnivariateBuilder(timeframes)
  /\ lastTick = <<>>
  /\ ops = 0
  /\ recentOps = <<>>
  /\ buffer = Buffer(1, <<"1", "s">>)
  /\ univariateBuffer = UnivariateBuffer(1, <<"1", "s">>)
  /\ ret = NoCall
  /\ dispatch = Idle
  /\ wsClient = PolygonWebSocketClient
  /\ polygonConnector \in {PolygonConnector(enableBackfill) : enableBackfill \in BOOLEAN}
  /\ pollingLoop = PollingLoop(300000)
  /\ supervisor = Supervisor(1)
  /\ analysis = Analysis
  /\ InitVendor

\* the aggregator is fed ticks, in order
Fed(ticks) ==
  /\ ops + Len(ticks) <= MaxOps
  /\ candleBuilder' = AddTicks(candleBuilder, ticks, timeframes)
  /\ lastTick' = IF ticks = <<>> THEN lastTick ELSE <<ticks[Len(ticks)]>>
  /\ ops' = ops + Len(ticks)
  /\ recentOps' = slice(recentOps \o [i \in 1..Len(ticks) |-> "addTick"], -2)
  /\ UNCHANGED <<pipeline, timeframes, univariateBuilder>>

\* time passes
ClockAdvances(ms) ==
  /\ polygonConnector.now + ms <= MaxClock
  /\ polygonConnector' = [polygonConnector EXCEPT !.now = @ + ms]
  /\ UNCHANGED <<aggregatorVars, bufferVars, dispatch, wsClient, pollingLoop, supervisor,
                 analysis, vendorVars>>

\* onMessage(raw) for a trade that arrives on the live stream
LiveTrade(raw) ==
  /\ polygonConnector.streaming
  /\ LET tick == PolygonNormalize(raw)
     IN  IF tick = null
         THEN UNCHANGED <<polygonConnector, aggregatorVars>>
         ELSE /\ polygonConnector' = feedToCandleBuilder(polygonConnector, tick[1], 0)
              /\ Fed(<<tick[1]>>)
  /\ UNCHANGED <<bufferVars, dispatch, wsClient, pollingLoop, supervisor, analysis, vendorVars>>

\* the socket closes: onDisconnected()
Disconnected ==
  /\ polygonConnector.streaming
  /\ polygonConnector.disconnects < MaxDisconnects
  /\ polygonConnector' =
       [onDisconnected(polygonConnector) EXCEPT
          !.streaming = FALSE,
          !.observed = Append(@, [last |-> polygonConnector.lastMessageTime,
                                  at   |-> polygonConnector.now])]
  /\ UNCHANGED <<aggregatorVars, bufferVars, dispatch, wsClient, pollingLoop, supervisor,
                 analysis, vendorVars>>

\* the client has reconnected, authenticated and subscribed: onConnected()
Reconnected ==
  /\ ~polygonConnector.streaming
  /\ polygonConnector' = [polygonConnector EXCEPT !.streaming = TRUE,
                                                  !.isConnected = TRUE]
  /\ UNCHANGED <<aggregatorVars, bufferVars, dispatch, wsClient, pollingLoop, supervisor,
                 analysis, vendorVars>>

\* the trades the vendor may return for a request, in the vendor's order
BackfillResults(request) ==
  LET a == PolygonTrade(Symbol, 100, 1, request.from + 10000)
      b == PolygonTrade(Symbol, 100, 1, request.from + 20000)
  IN  {<<>>, <<a>>, <<a, b>>, <<b, a>>}

\* the HTTP request of a backfill is answered: performBackfill replays
BackfillReturns(request, trades) ==
  /\ request \in polygonConnector.pending
  /\ LET ticks == backfillTrades(trades)
     IN  /\ polygonConnector' =
               [FeedAll(polygonConnector, ticks, request.id) EXCEPT
                  !.pending = @ \ {request}]
         /\ Fed(ticks)
  /\ UNCHANGED <<bufferVars, dispatch, wsClient, pollingLoop, supervisor, analysis, vendorVars>>

NextBackfill ==
  \/ \E ms \in {30000, 70000} : ClockAdvances(ms)
  \/ LiveTrade(PolygonTrade(Symbol, 100, 1, polygonConnector.now))
  \/ Disconnected
  \/ Reconnected
  \/ \E request \in polygonConnector.pending :
       \E trades \in BackfillResults(request) : BackfillReturns(request, trades)

SpecBackfill == InitBackfill /\ [][NextBackfill]_vars

\* C15: a disconnect more than 60 s after the last message, with backfill
\* enabled, requests a backfill from the last message time to the
\* disconnect time, and every tick it returns is fed to the aggregator, in
\* ascending timestamp order, before any tick of the re-established live
\* stream is fed.
C15_BackfillBeforeLive ==
  /\ \A k \in 1..Len(polygonConnector.observed) :
       LET seen     == polygonConnector.observed[k]
           requests == {r \in 1..Len(polygonConnector.requested) :
                          polygonConnector.requested[r].id = k}
       IN  IF /\ polygonConnector.enableBackfill
              /\ seen.last # null
              /\ seen.at - getTime(seen.last[1]) > 60000
           THEN \E r \in requests :
                  /\ requests = {r}
                  /\ polygonConnector.requested[r].from = getTime(seen.last[1])
                  /\ polygonConnector.requested[r].to = seen.at
           ELSE requests = {}
  /\ \A i, j \in 1..Len(polygonConnector.fed) :
       LET first  == polygonConnector.fed[i]
           second == polygonConnector.fed[j]
       IN  i < j =>
             /\ (first.source # 0 /\ second.source = first.source) =>
                  getTime(first.ts) <= getTime(second.ts)
             /\ (first.source = 0 /\ second.source # 0) =>
                  first.disconnects < second.source

(***************************************************************************)
(* Polling (specification SpecPolling): the loop of the weather connector  *)
(* polls, retries and is stopped                                           *)
(***************************************************************************)
InitPolling ==
  /\ pipeline = "univariate"
  /\ timeframes \in Networks
  /\ candleBuilder = CandleBuilder(timeframes)
  /\ univariateBuilder = UnivariateBuilder(timeframes)
  /\ lastTick = <<>>
  /\ ops = 0
  /\ recentOps = <<>>
  /\ buffer = Buffer(1, <<"1", "s">>)
  /\ univariateBuffer = UnivariateBuffer(1, <<"1", "s">>)
  /\ ret = NoCall
  /\ dispatch = Idle
  /\ wsClient = PolygonWebSocketClient
  /\ polygonConnector = PolygonConnector(TRUE)
  /\ pollingLoop = PollingLoop(300000)
  /\ supervisor = Supervisor(1)
  /\ analysis = Analysis
  /\ InitVendor

othersThanPolling ==
  <<aggregatorVars, bufferVars, dispatch, wsClient, polygonConnector, supervisor,
    analysis, vendorVars>>

\* the responses the vendor may give
Responses ==
  { Response(200, null, "array"),
    Response(200, null, "empty"),
    Response(429, Some(10), "none"),
    Response(429, Some(1), "none"),
    Response(500, null, "none"),
    Response(0, null, "none") }

\* pollingLoop.start(), once
Start ==
  /\ pollingLoop.polls = 0
  /\ pollingLoop.stops = 0
  /\ pollingLoop' = start(pollingLoop)
  /\ UNCHANGED othersThanPolling

\* the request of execution e is answered
Responds(e, response) ==
  /\ pollingLoop.running[e].phase = "polling"
  /\ LET answered == [pollingLoop EXCEPT
                        !.requests[pollingLoop.running[e].request].response =
                          Some(response)]
     IN  pollingLoop' =
           pollFunctionSettles(answered, e, fetchCurrentConditions(response))
  /\ UNCHANGED othersThanPolling

\* the sleep of execution e before its next attempt is over
SleepEnds(e) ==
  /\ pollingLoop.running[e].phase = "sleeping"
  /\ Len(pollingLoop.requests) < MaxRequests
  /\ pollingLoop' = sleepEnds(pollingLoop, e)
  /\ UNCHANGED othersThanPolling

\* a next-tick timeout fires: poll()
PollTimerFires ==
  /\ pollingLoop.timeouts > 0
  /\ Len(pollingLoop.requests) < MaxRequests
  /\ pollingLoop' =
       poll([pollingLoop EXCEPT !.timeouts = @ - 1, !.timer = null],
            pollingLoop.intervalMs)
  /\ UNCHANGED othersThanPolling

\* connector.shutdown(): pollingLoop.stop()
Stop ==
  /\ pollingLoop.stops < 2
  /\ pollingLoop' = [stop(pollingLoop) EXCEPT !.stops = @ + 1]
  /\ UNCHANGED othersThanPolling

NextPolling ==
  \/ Start
  \/ \E e \in 1..Len(pollingLoop.running) : \E response \in Responses :
       Responds(e, response)
  \/ \E e \in 1..Len(pollingLoop.running) : SleepEnds(e)
  \/ PollTimerFires
  \/ Stop

SpecPolling == InitPolling /\ [][NextPolling]_vars

\* C16: when a poll is answered with status 429 and Retry-After: N, the
\* next request goes out N seconds later.
C16_RetryAfterHonoured ==
  \A k \in 1..(Len(pollingLoop.requests) - 1) :
    LET answer == pollingLoop.requests[k].response
    IN  (answer # null /\ answer[1].status = 429 /\ answer[1].retryAfter # null) =>
          pollingLoop.requests[k + 1].wait = answer[1].retryAfter[1] * 1000

\* C19: while the loop runs without being stopped, a tick makes at most
\* maxRetries attempts, each retry retryDelayMs after the failed attempt;
\* when a tick has ended, by success or by exhausting its retries, exactly
\* one next tick is pending, scheduled intervalMs later and never a replay
\* of a failed one: timeouts pending plus ticks in flight is always one.
C19_OneTickAtATime ==
  (pollingLoop.stops = 0 /\ pollingLoop.polls > 0) =>
    /\ pollingLoop.timeouts + Len(pollingLoop.running) = 1
    /\ \A k \in 1..Len(pollingLoop.requests) :
         LET r == pollingLoop.requests[k]
         IN  /\ r.attempt < pollingLoop.maxRetries
             /\ r.attempt > 0 => r.wait = pollingLoop.retryDelayMs
             /\ (r.attempt = 0 /\ r.poll > 1) => r.wait = pollingLoop.intervalMs
             /\ k > 1 =>
                  LET q == pollingLoop.requests[k - 1]
                  IN  /\ q.response # null
                      /\ \/ /\ r.poll = q.poll
                            /\ r.attempt = q.attempt + 1
                            /\ fetchCurrentConditions(q.response[1]) = "throws"
                         \/ /\ r.poll = q.poll + 1
                            /\ r.attempt = 0
                            /\ \/ fetchCurrentConditions(q.response[1]) = "data"
                               \/ q.attempt = pollingLoop.maxRetries - 1

\* a tick has failed maxRetries times, and the next tick, scheduled by the
\* one timeout, has started
C19_Witness ==
  /\ pollingLoop.stops = 0
  /\ Len(pollingLoop.requests) = pollingLoop.maxRetries + 1
  /\ pollingLoop.requests[pollingLoop.maxRetries].attempt = pollingLoop.maxRetries - 1
  /\ pollingLoop.requests[pollingLoop.maxRetries + 1].poll = 2
  /\ pollingLoop.requests[pollingLoop.maxRetries + 1].wait = pollingLoop.intervalMs
  /\ Len(pollingLoop.running) = 1

(***************************************************************************)
(* Shutdown (specification SpecShutdown): the aggregator is fed, a signal  *)
(* arrives and the handler shuts the connectors down                       *)
(***************************************************************************)
\* the numbers of connectors a handler is registered with
ConnectorCounts == {1, 2}

InitShutdown ==
  /\ pipeline \in {"ohlc", "univariate"}
  /\ timeframes \in Networks
  /\ candleBuilder = CandleBuilder(timeframes)
  /\ univariateBuilder = UnivariateBuilder(timeframes)
  /\ lastTick = <<>>
  /\ ops = 0
  /\ recentOps = <<>>
  /\ buffer = Buffer(1, <<"1", "s">>)
  /\ univariateBuffer = UnivariateBuffer(1, <<"1", "s">>)
  /\ ret = NoCall
  /\ dispatch = Idle
  /\ wsClient = PolygonWebSocketClient
  /\ polygonConnector = PolygonConnector(TRUE)
  /\ pollingLoop = PollingLoop(300000)
  /\ supervisor \in {Supervisor(n) : n \in ConnectorCounts}
  /\ analysis = Analysis
  /\ InitVendor

\* SIGINT or SIGTERM: the handler of setupGracefulShutdown runs up to its
\* first await
Signal ==
  /\ pipeline = "ohlc"
  /\ supervisor.handler = "idle"
  /\ candleBuilder' = forceFinalizeAll(candleBuilder, timeframes)
  /\ supervisor' = shutdown(supervisor)
  /\ lastTick' = <<>>
  /\ recentOps' = Performed("forceFinalizeAll")
  /\ UNCHANGED <<pipeline, timeframes, univariateBuilder, ops>>
  /\ UNCHANGED <<bufferVars, dispatch, wsClient, polygonConnector, pollingLoop,
                 analysis, vendorVars>>

\* SIGINT or SIGTERM: the handler of setupUnivariateShutdown runs up to its
\* first await
UniSignal ==
  /\ pipeline = "univariate"
  /\ supervisor.handler = "idle"
  /\ univariateBuilder' = UnivariateForceFinalizeAll(univariateBuilder, timeframes)
  /\ supervisor' = shutdown(supervisor)
  /\ lastTick' = <<>>
  /\ recentOps' = Performed("forceFinalizeAll")
  /\ UNCHANGED <<pipeline, timeframes, candleBuilder, ops>>
  /\ UNCHANGED <<bufferVars, dispatch, wsClient, polygonConnector, pollingLoop,
                 analysis, vendorVars>>

\* the awaited shutdown() settles and the handler goes on
ShutdownSettles(outcome) ==
  /\ supervisor.handler = "awaiting"
  /\ supervisor' = shutdownSettles(supervisor, outcome)
  /\ UNCHANGED <<aggregatorVars, bufferVars, dispatch, wsClient, polygonConnector,
                 pollingLoop, analysis, vendorVars>>

NextShutdown ==
  \/ \E tick \in Ticks : supervisor.handler = "idle" /\ AddTick(tick)
  \/ \E tick \in Ticks : supervisor.handler = "idle" /\ UniAddTick(tick)
  \/ Signal
  \/ UniSignal
  \/ \E outcome \in {"resolves", "rejects"} : ShutdownSettles(outcome)

SpecShutdown == InitShutdown /\ [][NextShutdown]_vars

\* C18: once the signal handler has run to its end, forceFinalizeAll was
\* called on the aggregators, shutdown was called on every registered
\* connector, in order, and the process has exited, also when a
\* connector's shutdown raised.
C18_ShutdownBestEffort ==
  supervisor.handler \in {"exited", "rejected"} =>
    /\ supervisor.finalized
    /\ InProgress(Builder) = <<>>
    /\ supervisor.called = [i \in 1..supervisor.connectors |-> i]
    /\ supervisor.exitCode # null

(***************************************************************************)
(* Analysis (specification SpecAnalysis): the aggregator is fed while the  *)
(* scheduled rounds send its buffers                                       *)
(***************************************************************************)
\* rounds started in one behaviour
MaxRounds == 1

othersThanAnalysis ==
  <<bufferVars, dispatch, wsClient, polygonConnector, pollingLoop, supervisor,
    vendorVars>>

\* the interval fires and no earlier round is still running
RoundStarts ==
  /\ analysis.phase # "awaiting"
  /\ analysis.rounds < MaxRounds
  /\ analysis' = analysisRound(analysis, pipeline, Builder, timeframes)
  /\ UNCHANGED <<aggregatorVars, othersThanAnalysis>>

\* the POST the round awaits settles
RoundPostSettles(outcome) ==
  /\ analysis.phase = "awaiting"
  /\ analysis' = analysisSettles(analysis, pipeline, Builder, timeframes, outcome)
  /\ UNCHANGED <<aggregatorVars, othersThanAnalysis>>

NextAnalysis ==
  \/ \E tick \in DispatchTicks : AddTick(tick)
  \/ ForceFinalizeAll
  \/ \E tick \in DispatchTicks : UniAddTick(tick)
  \/ UniForceFinalizeAll
  \/ RoundStarts
  \/ \E outcome \in {"ok", "non2xx", "networkError"} : RoundPostSettles(outcome)

SpecAnalysis == Init /\ [][NextAnalysis]_vars

\* C20: in a round the timeframes are dealt with one after the other,
\* whatever happened to the earlier ones: a timeframe whose buffer is full
\* enough gets its POST, a POST that fails (non-2xx status or network
\* error) gives none for that timeframe, the round never fails, and when it
\* is over every timeframe has been dealt with.
C20_FailuresAreIndependent ==
  /\ analysis.phase # "failed"
  /\ \A k \in 1..Len(analysis.log) :
       LET entry == analysis.log[k]
       IN  /\ entry.label = timeframes[k].label
           /\ entry.full => entry.posted
           /\ (entry.posted /\ entry.outcome # "ok") => entry.result = "null"
           /\ (entry.posted /\ entry.outcome = "ok") => entry.result = "response"
  /\ analysis.phase = "awaiting" =>
       /\ analysis.at = Len(analysis.log) + 1
       /\ analysis.current.label = timeframes[analysis.at].label
  /\ analysis.phase = "done" => Len(analysis.log) = Len(timeframes)

\* a round is over in which the POST of one timeframe failed and a later
\* timeframe, full enough, got its POST all the same
C20_Witness ==
  /\ analysis.phase = "done"
  /\ \E j, k \in 1..Len(analysis.log) :
       /\ j < k
       /\ analysis.log[j].posted
       /\ analysis.log[j].outcome = "non2xx"
       /\ analysis.log[j].result = "null"
       /\ analysis.log[k].full
       /\ analysis.log[k].posted

(***************************************************************************)
(* Normalization (specification SpecNormalize): raw vendor messages are    *)
(* normalized, ret holding the last call                                   *)
(***************************************************************************)
\* an optional number: missing, zero or a value
OptionalNumbers == {undefined, Some(0), Some(100)}

BinanceMessages ==
  [e : {"trade", "aggTrade", "kline"},
   s : {"", Symbol},
   p : {<<>>, <<"1", "0", "0">>},
   q : {<<"2">>},
   T : {0, 1200}]

PolygonMessages ==
  [ev  : {"T", "Q", "status"},
   sym : {"", Symbol},
   p   : {undefined, Some(0), Some(100)},
   s   : {1},
   t   : {0, 1200}]

BloombergMessages ==
  [LAST_TRADE : {undefined, Some(100)},
   LAST_PRICE : {undefined},
   BID        : {undefined, Some(99)},
   ASK        : OptionalNumbers,
   VOLUME     : {undefined, Some(2)},
   TIME       : {undefined, Some(toISOString(1200))}]

AccuWeatherMessages ==
  [Value                    : {undefined, Some(0), Some(21), Some(-5)},
   LocalObservationDateTime : {undefined, Some(toISOString(1200))},
   EpochTime                : {undefined, Some(6)},
   RelativeHumidity         : {undefined, Some(40)}]

\* the wall clock when a message is normalized
Clock == 70000

Normalized(vendor, raw, tick) ==
  [op |-> "normalize", obj |-> vendor, arg |-> <<raw>>, before |-> <<>>,
   value |-> tick]

othersThanRet ==
  <<aggregatorVars, buffer, univariateBuffer, dispatch, connectorVars>>

NormalizeBinance(data) ==
  /\ ret' = Normalized("binance", data, BinanceNormalize(data))
  /\ UNCHANGED othersThanRet

NormalizePolygon(raw) ==
  /\ ret' = Normalized("polygon", raw, PolygonNormalize(raw))
  /\ UNCHANGED othersThanRet

NormalizeBloomberg(data) ==
  /\ ret' = Normalized("bloomberg", data, BloombergNormalize(data, Symbol, Clock))
  /\ UNCHANGED othersThanRet

NormalizeAccuWeather(raw) ==
  /\ ret' = Normalized("accuweather", raw, AccuWeatherNormalize(raw, Symbol, Clock))
  /\ UNCHANGED othersThanRet

NextNormalize ==
  \/ \E data \in BinanceMessages : NormalizeBinance(data)
  \/ \E raw \in PolygonMessages : NormalizePolygon(raw)
  \/ \E data \in BloombergMessages : NormalizeBloomberg(data)
  \/ \E raw \in AccuWeatherMessages : NormalizeAccuWeather(raw)

SpecNormalize == Init /\ [][NextNormalize]_vars

\* the raw message of vendor's feed has no symbol, no price, no vendor
\* timestamp, or is of no recognized event kind
Incomplete(vendor, raw) ==
  CASE vendor = "binance" ->
         raw.e \notin {"trade", "aggTrade"} \/ raw.s = "" \/ raw.p = <<>> \/ raw.T = 0
    [] vendor = "polygon" ->
         raw.ev # "T" \/ raw.sym = "" \/ raw.p = undefined \/ raw.t = 0
    [] vendor = "bloomberg" ->
         \/ raw.LAST_TRADE = undefined /\ raw.LAST_PRICE = undefined
              /\ raw.BID = undefined /\ raw.ASK = undefined
         \/ raw.TIME = undefined
    [] vendor = "accuweather" ->
         \/ raw.Value = undefined
         \/ raw.LocalObservationDateTime = undefined /\ raw.EpochTime = undefined

\* C21: a normalizer returns none for a raw message that lacks a symbol, a
\* price or a vendor timestamp, or is of no recognized event kind.
C21_IncompleteGivesNone ==
  ret.op = "normalize" =>
    (Incomplete(ret.obj, ret.arg[1]) => ret.value = null)

(***************************************************************************)
(* Terminal feed (specification SpecBloomberg): securities are subscribed  *)
(* and removed while market-data events arrive                             *)
(***************************************************************************)
InitBloomberg ==
  /\ pipeline = "ohlc"
  /\ timeframes \in Networks
  /\ candleBuilder = CandleBuilder(timeframes)
  /\ univariateBuilder = UnivariateBuilder(timeframes)
  /\ lastTick = <<>>
  /\ ops = 0
  /\ recentOps = <<>>
  /\ buffer = Buffer(1, <<"1", "s">>)
  /\ univariateBuffer = UnivariateBuffer(1, <<"1", "s">>)
  /\ ret = NoCall
  /\ dispatch = Idle
  /\ wsClient = PolygonWebSocketClient
  /\ polygonConnector = PolygonConnector(TRUE)
  /\ pollingLoop = PollingLoop(300000)
  /\ supervisor = Supervisor(1)
  /\ analysis = Analysis
  /\ bloomberg = BloombergConnector
  /\ restBackfill = PolygonRESTBackfill
  /\ accuWeather = AccuWeatherConnector
  /\ binanceConnector = BinanceConnector

othersThanBloomberg ==
  <<bufferVars, dispatch, wsClient, polygonConnector, pollingLoop, supervisor,
    analysis, restBackfill, accuWeather, binanceConnector>>

Securities == {Symbol, OtherSymbol}

\* tick data of the terminal
MarketData ==
  { undefined,
    Some([LAST_TRADE |-> Some(100), LAST_PRICE |-> undefined, BID |-> undefined,
          ASK |-> undefined, VOLUME |-> Some(2), TIME |-> Some(toISOString(1200))]),
    Some([LAST_TRADE |-> undefined, LAST_PRICE |-> undefined, BID |-> undefined,
          ASK |-> undefined, VOLUME |-> undefined, TIME |-> Some(toISOString(6000))]) }

\* init() for a configured security, or addSecuritySubscription(security)
AddSecuritySubscription(security) ==
  /\ bloomberg.subscriptionManager.nextCorrelationId < MaxSubscriptions
  /\ bloomberg' =
       [bloomberg EXCEPT
          !.subscriptionManager = addSubscription(@, security),
          !.issued = MapSet(@, bloomberg.subscriptionManager.nextCorrelationId,
                            security),
          !.duplicate = @ \/ \E i \in 1..Len(bloomberg.issued) :
                                 bloomberg.issued[i].value = security]
  /\ UNCHANGED <<aggregatorVars, othersThanBloomberg>>

\* removeSecuritySubscription(security)
RemoveSecuritySubscription(security) ==
  /\ bloomberg' =
       [bloomberg EXCEPT
          !.subscriptionManager = removeSubscription(@, security),
          !.issued = SelectSeq(@, LAMBDA e : e.value # security)]
  /\ UNCHANGED <<aggregatorVars, othersThanBloomberg>>

\* shutdown(): sessionManager.disconnect(), subscriptionManager.clear()
BloombergShutdown ==
  /\ bloomberg' =
       [bloomberg EXCEPT
          !.sessionManager = SessionManagerDisconnect(@),
          !.subscriptionManager = SubscriptionManagerClear(@),
          !.issued = <<>>]
  /\ UNCHANGED <<aggregatorVars, othersThanBloomberg>>

\* session.on('MarketDataEvents'): handleMarketDataEvent(message)
MarketDataEvents(message) ==
  /\ bloomberg.messageCount < MaxMessages
  /\ LET tick == handleMarketDataEvent(bloomberg, message, Clock)
     IN  /\ bloomberg' =
               [bloomberg EXCEPT
                  !.messageCount = @ + 1,
                  !.event = Some([correlations |-> message.correlations,
                                  active |-> IF message.correlations # <<>>
                                                  /\ MapHas(bloomberg.issued,
                                                            message.correlations[1])
                                             THEN Some(MapGet(bloomberg.issued,
                                                              message.correlations[1]))
                                             ELSE null,
                                  fed |-> tick])]
         /\ Fed(IF tick = null THEN <<>> ELSE tick)
  /\ UNCHANGED othersThanBloomberg

NextBloomberg ==
  \/ \E security \in Securities : AddSecuritySubscription(security)
  \/ \E security \in Securities : RemoveSecuritySubscription(security)
  \/ BloombergShutdown
  \/ \E correlations \in {<<>>} \cup {<<c>> : c \in 0..MaxSubscriptions} :
       \E data \in MarketData :
         MarketDataEvents(MarketDataEvent(correlations, data))

SpecBloomberg == InitBloomberg /\ [][NextBloomberg]_vars

\* C22: the tick a market-data event feeds carries the security that was
\* subscribed with the event's correlation identifier, and an event whose
\* identifier stands for no subscription that is still active (it was never
\* handed out, or its security was removed) feeds no tick.
C22_TickOfSubscribedSecurity ==
  bloomberg.event # null =>
    LET event == bloomberg.event[1]
    IN  event.fed # null =>
          /\ event.active # null
          /\ event.fed[1].symbol = event.active[1]

(***************************************************************************)
(* Windows of the aggregation (specification Spec)                         *)
(***************************************************************************)
\* the in-progress records of builder st that timeframe tf opened
OpenedBy(st, tf) ==
  {i \in 1..Len(InProgress(st)) :
     InProgress(st)[i].key = CandleKey(tf, InProgress(st)[i].value.startTime)}

\* the last step fed this accepted tick to the builder
Accepted(tick) ==
  /\ lastTick' = <<tick>>
  /\ tick.symbol = Symbol
  /\ ops' = ops + 1

\* C23: the builder holds at most one in-progress record per configured
\* timeframe and none of any other; when an accepted tick's window has no
\* in-progress record, the records the timeframe had in progress are
\* finalized and removed, and the record of the tick's window is the only
\* one left for the timeframe.
C23_OneInProgressPerTimeframe ==
  [][ LET old == Builder
          new == Builder'
      IN  /\ \A tf \in TimeframeSet : Cardinality(OpenedBy(new, tf)) <= 1
          /\ \A i \in 1..Len(InProgress(new)) :
               \E tf \in TimeframeSet : i \in OpenedBy(new, tf)
          /\ \A tick \in Ticks : Accepted(tick) =>
               \A tf \in TimeframeSet :
                 LET windowStart == getWindowStart(getTime(tick.ts), tf.seconds)
                     key         == CandleKey(tf, windowStart)
                 IN  ~MapHas(InProgress(old), key) =>
                       /\ \A i \in OpenedBy(old, tf) :
                            /\ ~MapHas(InProgress(new), InProgress(old)[i].key)
                            /\ \E k \in (Len(old.finalized) + 1)..Len(new.finalized) :
                                 /\ new.finalized[k].label = tf.label
                                 /\ new.finalized[k].record
                                      = FinalRecord(InProgress(old)[i].value)
                       /\ MapHas(InProgress(new), key)
                       /\ MapGet(InProgress(new), key).startTime = windowStart
                       /\ MapGet(InProgress(new), key).lastUpdate = getTime(tick.ts)
    ]_vars

\* a tick has just opened a new window for some timeframe whose earlier
\* record was finalized, and every timeframe has its one record in progress
C23_Witness ==
  /\ lastTick # <<>>
  /\ lastTick[1].symbol = Symbol
  /\ Builder.finalized # <<>>
  /\ \A tf \in TimeframeSet : Cardinality(OpenedBy(Builder, tf)) = 1
  /\ \E tf \in TimeframeSet :
       /\ RecordsOf(Builder, tf.label) # <<>>
       /\ \E i \in OpenedBy(Builder, tf) :
            InProgress(Builder)[i].value.lastUpdate = getTime(lastTick[1].ts)
            /\ InProgress(Builder)[i].value.startTime
                 = getWindowStart(getTime(lastTick[1].ts), tf.seconds)
            /\ toISOString(InProgress(Builder)[i].value.startTime)
                 # RecordsOf(Builder, tf.label)[Len(RecordsOf(Builder, tf.label))].datetime

\* C24: when an accepted tick's window for a timeframe starts earlier than
\* the window of that timeframe's in-progress candle, the candle is
\* finalized and pushed onto the timeframe's buffer, a candle holding just
\* the tick is opened for the earlier window, and the records the buffer
\* held stay as they were, apart from the eviction a push on a full buffer
\* makes.
C24_LateTickOpensEarlierWindow ==
  [][ \A tick \in Ticks : (pipeline = "ohlc" /\ Accepted(tick)) =>
        \A tf \in TimeframeSet :
          LET old         == candleBuilder
              new         == candleBuilder'
              windowStart == getWindowStart(getTime(tick.ts), tf.seconds)
          IN  \A i \in InProgressOf(old, tf) :
                old.candlesInProgress[i].value.startTime > windowStart =>
                  /\ new.buffers[tf.label].candles =
                       AfterPush(old.buffers[tf.label].candles,
                                 FinalCandle(old.candlesInProgress[i].value),
                                 tf.bufferSize)
                  /\ InProgressOf(new, tf) # {}
                  /\ \A j \in InProgressOf(new, tf) :
                       new.candlesInProgress[j].value
                         = NewCandle(tick, getTime(tick.ts), windowStart)
    ]_vars

\* a full buffer whose newest candle is of a later window than the candle
\* in progress, which the last tick opened
C24_Witness ==
  /\ pipeline = "ohlc"
  /\ lastTick # <<>>
  /\ \E tf \in TimeframeSet :
       LET held == candleBuilder.buffers[tf.label].candles
       IN  /\ Len(held) = tf.bufferSize
           /\ \E j \in InProgressOf(candleBuilder, tf) :
                /\ candleBuilder.candlesInProgress[j].value.ticks = lastTick
                /\ getTime(held[Len(held)].datetime)
                     > candleBuilder.candlesInProgress[j].value.startTime

(***************************************************************************)
(* Reconnection, heartbeat and frames of the streaming clients             *)
(* (specification SpecSocket)                                              *)
(***************************************************************************)
\* the reconnects scheduled by the closes since the last socket opened
ReconnectsScheduled(st) ==
  Cardinality({n \in 1..Len(st.closes) : st.closes[n] # null})

C26_HeartbeatPingsOrCloses ==
  ret.op = "heartbeat" =>
    IF ret.arg[1] > 3 * wsClient.pingInterval
    THEN ret.value = <<"close">> /\ wsClient.sockets[wsClient.ws] = "CLOSING"
    ELSE ret.value = <<"ping">> /\ wsIsOpen(wsClient)

\* C27: the Polygon client sends a subscribe frame only on a connection on
\* which an auth_success status was received.
C27_SubscribeAfterAuthSuccess ==
  (ret.op = "send" /\ ret.arg = <<"subscribe">>) =>
    wsClient.authenticated = ret.value[1]

\* the connect timeouts that fire in this step while their socket is still
\* connecting and the client, not shut down, has attempts left
TimedOut ==
  {t \in wsClient.timers \ wsClient'.timers :
     /\ t.kind = "connectTimeout"
     /\ wsClient.sockets[t.socket] = "CONNECTING"
     /\ ~wsClient.isShuttingDown
     /\ wsClient.reconnectAttempts < wsClient.maxReconnectAttempts}

\* C28: when the 10 s timeout of connect() expires before the socket has
\* opened, a reconnect attempt is scheduled (subject to the maximum), also
\* when the socket emitted neither open nor close.
C28_TimeoutSchedulesReconnect ==
  [][TimedOut # {} =>
       \E r \in wsClient'.timers : r.kind = "reconnect"]_vars

(***************************************************************************)
(* Stopping the polling loop (specification SpecPolling)                   *)
(***************************************************************************)
\* C29: once stop() has been called the poll function is not invoked again,
\* also when stop() came while an attempt was in flight or a retry sleep was
\* pending.
C29_NoPollAfterStop ==
  pollingLoop.stops > 0 => "poll" \notin pollingLoop.after

(***************************************************************************)
(* Pagination (specification SpecPagination): one call of                  *)
(* fetchTradesInRange and the bodies the vendor answers with               *)
(***************************************************************************)
MaxPages == 4

\* the timestamps of the range and of the results
Timestamps == 1..4

\* the bodies a request may be answered with
Bodies ==
  {Body(undefined), Body(Some(Page(0, undefined)))}
    \cup {Body(Some(Page(length, sip_timestamp))) :
            length \in {1, PageLimit},
            sip_timestamp \in {undefined} \cup {Some(t) : t \in Timestamps}}

othersThanPagination ==
  <<aggregatorVars, bufferVars, dispatch, wsClient, polygonConnector,
    pollingLoop, supervisor, analysis, bloomberg, accuWeather, binanceConnector>>

\* backfillTrades calls fetchTradesInRange
FetchTradesInRange(fromTimestamp, toTimestamp) ==
  /\ restBackfill.phase = "idle"
  /\ restBackfill' = fetchTradesInRange(restBackfill, fromTimestamp, toTimestamp)
  /\ UNCHANGED othersThanPagination

\* the awaited fetchWithRetry settles
PageSettles(failures, body) ==
  /\ restBackfill.phase = "awaiting"
  /\ Len(restBackfill.requests) <= MaxPages
  /\ restBackfill' = pageSettles(restBackfill, fetchWithRetry(failures, body))
  /\ UNCHANGED othersThanPagination

NextPagination ==
  \/ \E fromTimestamp, toTimestamp \in Timestamps :
       FetchTradesInRange(fromTimestamp, toTimestamp)
  \/ \E failures \in 0..3 : \E body \in Bodies : PageSettles(failures, body)

SpecPagination == Init /\ [][NextPagination]_vars

\* C30: every request of fetchTradesInRange has a lower bound below the upper
\* bound; every further request follows a full page and its lower bound is
\* the last timestamp of that page plus one, strictly greater than the lower
\* bound of the request before, so that the requests of one call are at most
\* as many as the timestamps of the range.
C30_PaginationAdvances ==
  /\ \A k \in 1..Len(restBackfill.requests) :
       /\ restBackfill.requests[k].gte < restBackfill.requests[k].lte
       /\ k > 1 =>
            /\ restBackfill.pages[k - 1].results # undefined
            /\ restBackfill.pages[k - 1].results[1].length = PageLimit
            /\ restBackfill.requests[k].gte =
                 restBackfill.pages[k - 1].results[1].sip_timestamp[1] + 1
            /\ restBackfill.requests[k].gte > restBackfill.requests[k - 1].gte
  /\ restBackfill.requests # <<>> =>
       Len(restBackfill.requests) <=
         restBackfill.requests[1].lte - restBackfill.requests[1].gte

(***************************************************************************)
(* The payload of a pending POST (specification SpecDispatch)              *)
(***************************************************************************)
\* the data rows of a POST body: its lines but the header and the placeholder
DataRows(body) == SubSeq(body, 2, Len(body) - 1)

\* C31: the rows of a POST body are the rowCount - 1 most recent records the
\* buffer held when send was called, in their order; while the POST is
\* pending the aggregator's pushes change neither the body nor that order,
\* and the send itself leaves the builder's buffers unchanged.
C31_PayloadIsSnapshot ==
  [][ /\ dispatch'.phase = "pending" =>
           LET recent == MostRecent(dispatch'.snapshot, dispatch'.rowCount - 1)
           IN  DataRows(dispatch'.body) =
                 [i \in 1..Len(recent) |-> LineOf(recent[i])]
      /\ (dispatch.phase = "pending" /\ dispatch'.phase = "pending") =>
           dispatch' = dispatch
      /\ (dispatch.phase # "pending" /\ dispatch' # dispatch) =>
           /\ Builder' = Builder
           /\ dispatch'.snapshot = RecordsOf(Builder, dispatch'.label)
    ]_vars

(***************************************************************************)
(* The weather normalizer (specification SpecNormalize)                    *)
(***************************************************************************)
\* C32: for a first element whose Temperature.Metric.Value is a number v,
\* zero and negative values included, the weather normalizer yields a tick
\* with price v and size RelativeHumidity (absent when not supplied); it
\* yields none only when the value is missing.
C32_TemperatureBecomesPrice ==
  (ret.op = "normalize" /\ ret.obj = "accuweather") =>
    LET raw == ret.arg[1]
    IN  IF raw.Value = undefined THEN ret.value = null
        ELSE /\ ret.value # null
             /\ ret.value[1].price = raw.Value[1]
             /\ ret.value[1].size = raw.RelativeHumidity

(***************************************************************************)
(* Prefix labels (specification SpecPrefix): the aggregator is constructed *)
(* with the timeframes 1m and 1m30s, the label of the first being a prefix *)
(* of the label of the second                                              *)
(***************************************************************************)
PrefixNetworks ==
  { << TimeframeConfig(60, <<"1", "m">>),
       TimeframeConfig(90, <<"1", "m", "3", "0", "s">>) >>,
    << TimeframeConfig(90, <<"1", "m", "3", "0", "s">>),
       TimeframeConfig(60, <<"1", "m">>) >> }

PrefixTicks ==
  { NormalizedTick(ms, [price |-> 100, size |-> Some(1)], Symbol) :
      ms \in {0, 1000, 61000} }

InitPrefix ==
  /\ pipeline \in {"ohlc", "univariate"}
  /\ timeframes \in PrefixNetworks
  /\ candleBuilder = CandleBuilder(timeframes)
  /\ univariateBuilder = UnivariateBuilder(timeframes)
  /\ lastTick = <<>>
  /\ ops = 0
  /\ recentOps = <<>>
  /\ buffer = Buffer(1, <<"1", "s">>)
  /\ univariateBuffer = UnivariateBuffer(1, <<"1", "s">>)
  /\ ret = NoCall
  /\ dispatch = Idle
  /\ wsClient = PolygonWebSocketClient
  /\ polygonConnector = PolygonConnector(TRUE)
  /\ pollingLoop = PollingLoop(300000)
  /\ supervisor = Supervisor(1)
  /\ analysis = Analysis
  /\ InitVendor

NextPrefix ==
  \/ \E tick \in PrefixTicks : AddTick(tick)
  \/ ForceFinalizeAll
  \/ \E tick \in PrefixTicks : UniAddTick(tick)
  \/ UniForceFinalizeAll

SpecPrefix == InitPrefix /\ [][NextPrefix]_vars

\* the timeframe that created the in-progress record stored under key
Creator(st, key) ==
  CHOOSE tf \in TimeframeSet :
    key = CandleKey(tf, MapGet(InProgress(st), key).startTime)

\* the keys of the in-progress records a step removes
Removed ==
  {MapKeys(InProgress(Builder))[i] : i \in 1..Len(MapKeys(InProgress(Builder)))}
    \ {MapKeys(InProgress(Builder'))[i] : i \in 1..Len(MapKeys(InProgress(Builder')))}

\* the finalizations a step logs
Logged == SubSeq(Builder'.finalized, Len(Builder.finalized) + 1, Len(Builder'.finalized))

\* C33: for a network of pairwise distinct labels, one of which may be a
\* prefix of another, every in-progress record that a tick or
\* forceFinalizeAll removes is finalized once, into the buffer of the
\* timeframe that created it.
C33_FinalizedIntoOwnBuffer ==
  [][ /\ Len(Logged) = Cardinality(Removed)
      /\ \A key \in Removed :
           \E n \in 1..Len(Logged) :
             /\ Logged[n].label = Creator(Builder, key).label
             /\ Logged[n].record = FinalRecord(MapGet(InProgress(Builder), key))
    ]_vars

(***************************************************************************)
(* Conservation of volume (specification Spec)                             *)
(***************************************************************************)
RECURSIVE SumVolumes(_)
SumVolumes(records) ==
  IF records = <<>> THEN 0
  ELSE Head(records).volume + SumVolumes(Tail(records))

\* the volumes of the in-progress candles that timeframe tf created
RECURSIVE VolumeInProgress(_, _, _)
VolumeInProgress(st, tf, i) ==
  IF i > Len(st.candlesInProgress) THEN 0
  ELSE (IF i \in InProgressOf(st, tf) THEN st.candlesInProgress[i].value.volume
        ELSE 0)
         + VolumeInProgress(st, tf, i + 1)

\* the buffer of timeframe tf still holds every record finalized into it
NothingEvicted(st, tf) ==
  Cardinality({n \in 1..Len(st.finalized) : st.finalized[n].label = tf.label})
    = Len(st.buffers[tf.label].candles)

\* C34: for each timeframe whose buffer has evicted nothing, the volumes of
\* the records in the buffer plus the volume of the candle in progress add
\* up to the sizes of all ticks accepted so far, a missing size counting as
\* 0, whatever the order of the ticks' timestamps.
C34_VolumeConserved ==
  pipeline = "ohlc" =>
    \A tf \in TimeframeSet :
      NothingEvicted(candleBuilder, tf) =>
        SumVolumes(candleBuilder.buffers[tf.label].candles)
          + VolumeInProgress(candleBuilder, tf, 1)
          = candleBuilder.acceptedSize

\* a tick of second 6, then a tick of second 0 without a size, then a tick
\* of second 1: the 1s buffer holds two records, a third candle is in
\* progress, and the three add up to the sizes accepted
C34_Witness ==
  /\ pipeline = "ohlc"
  /\ ops = 3
  /\ candleBuilder.acceptedSize = 3
  /\ Len(candleBuilder.buffers[<<"1", "s">>].candles) = 2
  /\ getTime(candleBuilder.buffers[<<"1", "s">>].candles[1].datetime) = 6000
  /\ candleBuilder.buffers[<<"1", "s">>].candles[2].volume = 0
  /\ NothingEvicted(candleBuilder, timeframes[1])
  /\ Cardinality(InProgressOf(candleBuilder, timeframes[1])) = 1

(***************************************************************************)
(* Throwing listeners (specification SpecThrowing): listeners, one of      *)
(* which throws, are registered on the candle builder while a connector    *)
(* feeds it and catches what addTick throws                                *)
(***************************************************************************)
InitThrowing ==
  /\ Init
  /\ pipeline = "ohlc"

NextThrowing ==
  \/ \E tick \in ListenerTicks : AddTick(tick)
  \/ ForceFinalizeAll
  \/ \E listener \in {"logCandle", "failing"} : OnCandleComplete(listener)

SpecThrowing == InitThrowing /\ [][NextThrowing]_vars

\* the in-progress candles of the builder after the step that were opened
\* by timeframe label for the window of record
StillInProgress(label, record) ==
  {i \in 1..Len(candleBuilder'.candlesInProgress) :
     /\ candleBuilder'.candlesInProgress[i].key
          = label \o <<"_">> \o NumberToString(getTime(record.datetime))
     /\ FinalCandle(candleBuilder'.candlesInProgress[i].value) = record}

\* C35: when a candle has been finalized, also when a completion listener
\* threw meanwhile, the candle is in its buffer and no longer in progress,
\* so that nothing pushes it a second time.
C35_FinalizedLeavesProgress ==
  [][ \A n \in 1..Len(Logged) :
        /\ StillInProgress(Logged[n].label, Logged[n].record) = {}
        /\ \E k \in 1..Len(candleBuilder'.buffers[Logged[n].label].candles) :
             candleBuilder'.buffers[Logged[n].label].candles[k] = Logged[n].record
    ]_vars

(***************************************************************************)
(* Restarting the polling loop (specification SpecRestart): as SpecPolling, *)
(* and start() is called again after stop()                                *)
(***************************************************************************)
\* pollingLoop.start() on a loop that was stopped once
Restart ==
  /\ pollingLoop.stops = 1
  /\ ~pollingLoop.isRunning
  /\ Len(pollingLoop.requests) < MaxRequests
  /\ pollingLoop' = start(pollingLoop)
  /\ UNCHANGED othersThanPolling

NextRestart ==
  \/ Start
  \/ \E e \in 1..Len(pollingLoop.running) : \E response \in Responses :
       Responds(e, response)
  \/ \E e \in 1..Len(pollingLoop.running) : SleepEnds(e)
  \/ PollTimerFires
  \/ Stop
  \/ Restart

SpecRestart == InitPolling /\ [][NextRestart]_vars

\* C36: across start(), stop() and the completions of polls, also when
\* start() follows stop() while an earlier poll is in flight, at most one
\* execution of pollWithRetry is in flight and at most one next-tick timer
\* is pending.
C36_OnePollingChain ==
  /\ Len(pollingLoop.running) <= 1
  /\ pollingLoop.timeouts <= 1

(***************************************************************************)
(* Connecting the weather connector (specification SpecWeather):           *)
(* connect() starts the loop and awaits a poll of its own, the loop polls, *)
(* and shutdown() is called                                                *)
(***************************************************************************)
othersThanWeather ==
  <<aggregatorVars, bufferVars, dispatch, wsClient, polygonConnector, supervisor,
    analysis, bloomberg, restBackfill, binanceConnector>>

\* connector.connect()
WeatherConnect ==
  /\ accuWeather.connecting = "idle"
  /\ accuWeather' = AccuWeatherConnect(accuWeather)
  /\ pollingLoop' = start(PollingLoop(300000))
  /\ UNCHANGED othersThanWeather

\* the request of the poll() that connect() awaits is answered
WeatherConnectSettles(response) ==
  /\ accuWeather.connecting = "awaiting"
  /\ accuWeather' =
       AccuWeatherConnectSettles(accuWeather, fetchCurrentConditions(response))
  /\ UNCHANGED pollingLoop
  /\ UNCHANGED othersThanWeather

\* connector.shutdown()
WeatherShutdown ==
  /\ pollingLoop.stops < 1
  /\ accuWeather.connecting # "idle"
  /\ pollingLoop' = [stop(pollingLoop) EXCEPT !.stops = @ + 1]
  /\ accuWeather' = AccuWeatherShutdown(accuWeather)
  /\ UNCHANGED othersThanWeather

NextWeather ==
  \/ WeatherConnect
  \/ \E response \in Responses : WeatherConnectSettles(response)
  \/ \E e \in 1..Len(pollingLoop.running) : \E response \in Responses :
       Responds(e, response)
  \/ \E e \in 1..Len(pollingLoop.running) : SleepEnds(e)
  \/ PollTimerFires
  \/ WeatherShutdown

SpecWeather == InitPolling /\ [][NextWeather]_vars

\* C37: when connect() has rejected because its initial poll failed, and
\* before any shutdown, the connector is stopped: its polling loop does not
\* run, nothing of it is in flight or pending, and health() does not report
\* 'connected'.
C37_RejectedConnectLeavesStopped ==
  (accuWeather.connecting = "rejected" /\ pollingLoop.stops = 0) =>
    /\ ~pollingLoop.isRunning
    /\ pollingLoop.running = <<>>
    /\ pollingLoop.timeouts = 0
    /\ AccuWeatherHealth(accuWeather) # "connected"

(***************************************************************************)
(* The two indexes of the SubscriptionManager (specification SpecBloomberg) *)
(***************************************************************************)
\* the active correlation identifiers that stand for security
ActiveFor(m, security) ==
  {m.subscriptions[i].key : i \in
     {j \in 1..Len(m.subscriptions) : m.subscriptions[j].value.security = security}}

\* C38: after any sequence of addSubscription, removeSubscription and clear
\* the two indexes agree: a subscribed security has exactly one active
\* identifier c, getSecurityByCorrelation(c) is the security and
\* getCorrelationBySecurity(security) is c, the first identifier issued
\* included; a security that was removed has no active identifier.
C38_IndexesAgree ==
  LET m == bloomberg.subscriptionManager
  IN  \A security \in Securities :
        IF MapHas(m.securityToCorrelation, security)
        THEN LET c == MapGet(m.securityToCorrelation, security)
             IN  /\ ActiveFor(m, security) = {c}
                 /\ getSecurityByCorrelation(m, c) = Some(security)
                 /\ getCorrelationBySecurity(m, security) = Some(c)
        ELSE ActiveFor(m, security) = {}

(***************************************************************************)
(* Connecting the session again (specification SpecSession)                *)
(***************************************************************************)
MaxConnects == 3

\* sessionManager.connect()
SessionConnect ==
  /\ bloomberg.sessionManager.connects < MaxConnects
  /\ bloomberg' = [bloomberg EXCEPT !.sessionManager = SessionManagerConnect(@)]
  /\ UNCHANGED <<aggregatorVars, othersThanBloomberg>>

\* the live session raises SessionStarted or SessionStartupFailure, once
SessionAnswers(p, ok) ==
  /\ p \in 1..Len(bloomberg.sessionManager.promises)
  /\ bloomberg.sessionManager.promises[p].session = bloomberg.sessionManager.session
  /\ bloomberg.sessionManager.promises[p].timeout
  /\ bloomberg' =
       [bloomberg EXCEPT
          !.sessionManager = IF ok THEN SessionStarted(@, p)
                             ELSE SessionStartupFailure(@, p)]
  /\ UNCHANGED <<aggregatorVars, othersThanBloomberg>>

\* 30 s pass after performConnection() with the timer still armed
SessionTimeout(p) ==
  /\ p \in 1..Len(bloomberg.sessionManager.promises)
  /\ bloomberg.sessionManager.promises[p].timeout
  /\ bloomberg' = [bloomberg EXCEPT !.sessionManager = ConnectionTimeout(@, p)]
  /\ UNCHANGED <<aggregatorVars, othersThanBloomberg>>

\* the live session raises SessionTerminated
SessionTerminates ==
  /\ bloomberg.sessionManager.session # 0
  /\ bloomberg.sessionManager.isConnected
  /\ bloomberg' = [bloomberg EXCEPT !.sessionManager = SessionTerminated(@)]
  /\ UNCHANGED <<aggregatorVars, othersThanBloomberg>>

NextSession ==
  \/ SessionConnect
  \/ \E p \in 1..MaxConnects : \E ok \in BOOLEAN : SessionAnswers(p, ok)
  \/ \E p \in 1..MaxConnects : SessionTimeout(p)
  \/ SessionTerminates
  \/ BloombergShutdown
  \/ \E security \in Securities : AddSecuritySubscription(security)

SpecSession == InitBloomberg /\ [][NextSession]_vars

\* C39: a connect() that follows a disconnect(), or a connection attempt
\* that failed, starts a new session and returns a promise that waits for
\* that session; a promise is fulfilled only once its session has started.
C39_ConnectStartsNewSession ==
  [][LET sm == bloomberg.sessionManager
         after == sm'
     IN  /\ (/\ after.connects = sm.connects + 1
             /\ \/ sm.destroyed
                \/ /\ sm.connectionPromise # 0
                   /\ sm.promises[sm.connectionPromise].state = "rejected")
            => /\ after.sessions = sm.sessions + 1
               /\ after.session = after.sessions
               /\ after.promises[after.returned] =
                    [session |-> after.session, state |-> "pending",
                     timeout |-> TRUE]
         /\ \A p \in 1..Len(after.promises) :
              after.promises[p].state = "fulfilled"
                => after.promises[p].session \in after.started]_vars

(***************************************************************************)
(* Streams across a reconnection (specification SpecStreams): the Binance   *)
(* client connects, loses its socket and reconnects while symbols are      *)
(* added and removed                                                       *)
(***************************************************************************)
InitStreams == InitSocket /\ wsClient.kind = "binance"

othersThanStreams ==
  <<aggregatorVars, buffer, univariateBuffer, dispatch, polygonConnector,
    pollingLoop, supervisor, analysis, bloomberg, restBackfill, accuWeather>>

\* the socket the client can send on, 0 when there is none
OpenSocket == IF wsIsOpen(wsClient) THEN wsClient.ws ELSE 0

\* connector.connect(): wsClient.connect()
StreamsConnect ==
  /\ wsClient.sockets = <<>>
  /\ wsClient' = BinanceConnect(wsClient)
  /\ binanceConnector' = BinanceNewSocket(binanceConnector)
  /\ ret' = NoCall
  /\ UNCHANGED othersThanStreams

\* socket i emits 'open'
StreamsOpen(i) ==
  /\ wsClient.sockets[i] = "CONNECTING"
  /\ wsClient' = BinanceOnOpen([wsClient EXCEPT !.sockets[i] = "OPEN",
                                                !.closes = <<>>])
  /\ binanceConnector' = BinanceOnConnected(binanceConnector, i)
  /\ ret' = NoCall
  /\ UNCHANGED othersThanStreams

\* socket i emits 'close': the connection is lost
StreamsClose(i) ==
  /\ wsClient.sockets[i] # "CLOSED"
  /\ LET closed  == [wsClient EXCEPT !.sockets[i] = "CLOSED"]
         handled == BinanceOnClose(closed)
     IN  wsClient' = [handled EXCEPT
                        !.closes = Append(@, Scheduled(closed, handled))]
  /\ binanceConnector' = BinanceOnDisconnected(binanceConnector, i)
  /\ ret' = NoCall
  /\ UNCHANGED othersThanStreams

\* the reconnect timeout fires: connect() builds the URL again
StreamsReconnect(t) ==
  /\ t \in wsClient.timers
  /\ t.kind = "reconnect"
  /\ Len(wsClient.sockets) < MaxSockets
  /\ wsClient' = BinanceReconnectFires([wsClient EXCEPT !.timers = @ \ {t}])
  /\ binanceConnector' = BinanceNewSocket(binanceConnector)
  /\ ret' = NoCall
  /\ UNCHANGED othersThanStreams

\* connector.addSymbol(symbol)
AddSymbol(symbol) ==
  /\ binanceConnector' = addSymbol(binanceConnector, OpenSocket, symbol)
  /\ ret' = NoCall
  /\ UNCHANGED <<wsClient, othersThanStreams>>

\* connector.removeSymbol(symbol)
RemoveSymbol(symbol) ==
  /\ binanceConnector' = removeSymbol(binanceConnector, OpenSocket, symbol)
  /\ ret' = NoCall
  /\ UNCHANGED <<wsClient, othersThanStreams>>

NextStreams ==
  \/ StreamsConnect
  \/ \E i \in 1..Len(wsClient.sockets) : StreamsOpen(i)
  \/ \E i \in 1..Len(wsClient.sockets) : StreamsClose(i)
  \/ \E t \in wsClient.timers : StreamsReconnect(t)
  \/ \E symbol \in {Symbol, OtherSymbol} : AddSymbol(symbol)
  \/ \E symbol \in {Symbol, OtherSymbol} : RemoveSymbol(symbol)

SpecStreams == InitStreams /\ [][NextStreams]_vars

\* C40: once the Binance client has lost its connection and reconnected,
\* the streams it is subscribed to include those of every symbol added with
\* addSymbol and none of a symbol removed with removeSymbol.
C40_SubscriptionsSurviveReconnect ==
  (OpenSocket > 1) =>
    LET subscribed == binanceConnector.subscribed[OpenSocket]
    IN  /\ streamNames(binanceConnector.added, binanceConnector.streams)
             \subseteq subscribed
        /\ streamNames(binanceConnector.removed, binanceConnector.streams)
             \cap subscribed = {}

====
